---- MODULE Spec2Model ----
(***************************************************************************)
(* A model of the IDL tooling of buildscripts/idl:                         *)
(*   - idl_check_compatibility.py, the compatibility checker that diffs an *)
(*     old and a new tree of IDL files (specification SpecCompat);         *)
(*   - idl/generator.py, through the behaviour of the C++ it emits: the    *)
(*     generated decoder, serializer and comparison operators              *)
(*     (specifications SpecDecode, SpecRoundTrip and SpecCompare).         *)
(***************************************************************************)
EXTENDS Integers, Sequences, FiniteSets, TLC

VARIABLES
    \* ---- compatibility checker (idl_check_compatibility.py)
    oldTree,        \* the old IDL tree: [reply, commands]
    newTree,        \* the new IDL tree: [reply, commands]
    cpc,            \* position of check_compatibility
    new_commands,   \* name -> new command, as built by get_new_commands
    old_commands,   \* command_name -> the old command stored under it
    oldIdx,         \* index of the next old command to scan
    errors,         \* ctxt.errors, in the order the errors were added
    oldBasic,       \* the old mongo/idl/basic_types.idl: [has, fields] of ErrorReply
    newBasic,       \* the new mongo/idl/basic_types.idl: [has, fields] of ErrorReply
    mpc,            \* position of main
    error_reply_coll, \* the errors of check_error_reply
    exit_status,    \* the exit status of the process, -1 while it runs
    \* ---- generated code (idl/generator.py)
    struct,         \* the struct the code was generated for
    doc,            \* the document handed to the generated parser
    object,         \* the object under construction / the left operand
    other,          \* the right operand of the comparison operators
    parsed,         \* what the generated parser returned
    cmp,            \* what the generated comparison operators returned
    gpc,            \* position of the caller of the generated code
    \* ---- runs of the generator (idl/generator.py), one entry per process
    ast,            \* the IDLAST the process holds: [structs, commands]
    sys_argv,       \* sys.argv of the process, joined
    files,          \* the output files: [header, source], Absent or a text
    last,           \* the last call made: its function, inputs and outcome
    calls,          \* the number of calls made so far
    \* ---- TestSuiteExecutor.run (resmokelib/testing/executor.py)
    executor,       \* the executor, its suite and the locals of run
    \* ---- __get_libdeps (site_scons/libdeps.py)
    libdeps         \* the dependency graph, the node asked for and the outcome

mainVars   == <<oldBasic, newBasic, mpc, error_reply_coll, exit_status>>
compatVars == <<oldTree, newTree, cpc, new_commands, old_commands, oldIdx, errors,
                oldBasic, newBasic, mpc, error_reply_coll, exit_status>>
codecVars  == <<struct, doc, object, other, parsed, cmp, gpc>>
genVars    == <<ast, sys_argv, files, last, calls>>
execVars   == <<executor>>
libVars    == <<libdeps>>
extVars    == <<ast, sys_argv, files, last, calls, executor, libdeps>>
vars       == <<oldTree, newTree, cpc, new_commands, old_commands, oldIdx, errors,
                oldBasic, newBasic, mpc, error_reply_coll, exit_status,
                struct, doc, object, other, parsed, cmp, gpc,
                ast, sys_argv, files, last, calls, executor, libdeps>>

(***************************************************************************)
(* Bounds of the model.                                                    *)
(***************************************************************************)
MaxCmds == 2
MaxFields == 2
MaxDuplicates == 3

(***************************************************************************)
(* Generic helpers.                                                        *)
(***************************************************************************)
Range(s) == {s[i] : i \in DOMAIN s}

SeqsUpTo(S, n) == UNION {[1..k -> S] : k \in 0..n}

\* Sequences of pairwise different-named items (a struct never repeats a field name).
DistinctNames(s) == \A i, j \in DOMAIN s : i # j => s[i].name # s[j].name

(***************************************************************************)
(* The syntax tree the checker reads (idl/syntax.py objects, as the        *)
(* checker uses them).  Every node has the same shape.                     *)
(***************************************************************************)
NoType == [kind |-> "none", name |-> "", bson |-> {}, cpp |-> "",
           alts |-> <<>>, vstruct |-> <<>>, values |-> {}, fields |-> <<>>]

\* syntax.Type
TypeNode(name, bson, cpp) == [NoType EXCEPT !.kind = "type", !.name = name,
                                              !.bson = bson, !.cpp = cpp]

\* syntax.Enum
EnumNode(name, values) == [NoType EXCEPT !.kind = "enum", !.name = name, !.values = values]

\* syntax.Struct
StructNode(name, fields) == [NoType EXCEPT !.kind = "struct", !.name = name,
                                             !.fields = fields]

\* syntax.VariantType: alts = variant_types, vstruct = <<variant_struct_type>> or <<>>
VariantNode(name, alts, vstruct) ==
    [NoType EXCEPT !.kind = "variant", !.name = name, !.alts = alts, !.vstruct = vstruct,
                   !.bson = UNION {alts[i].bson : i \in DOMAIN alts}
                            \cup (IF vstruct = <<>> THEN {} ELSE {"object"})]

\* syntax.Field
Field(name, optional, unstable, validator, type) ==
    [name |-> name, optional |-> optional, unstable |-> unstable,
     validator |-> validator, type |-> type]

\* isinstance(t, syntax.Type): VariantType derives from Type
IsType(t) == t.kind \in {"type", "variant"}
IsVariant(t) == t.kind = "variant"
IsEnum(t) == t.kind = "enum"
IsStruct(t) == t.kind = "struct"
IsNone(t) == t.kind = "none"

(***************************************************************************)
(* Symbol resolution.  A file's symbol table maps a type name to its node; *)
(* get_field_type yields None (NoType) for a name the file cannot resolve. *)
(***************************************************************************)
get_field_type(field, symbols) ==
    IF field.type \in DOMAIN symbols THEN symbols[field.type] ELSE NoType

\* idl_file.spec.symbols.get_struct(name)
get_struct(symbols, name) ==
    IF name \in DOMAIN symbols /\ symbols[name].kind = "struct" THEN symbols[name] ELSE NoType

(***************************************************************************)
(* The error collection.  A check yields the errors it adds, in order, and *)
(* whether it ended the process (sys.exit(1)).                             *)
(***************************************************************************)
NoErrors == [errs |-> <<>>, exit |-> FALSE]

AddError(kind, cmd, name, path) ==
    [errs |-> << [kind |-> kind, cmd |-> cmd, name |-> name, path |-> path] >>, exit |-> FALSE]

\* ctxt.add_..._error(...); ctxt.errors.dump_errors(); sys.exit(1)
AddErrorAndExit(kind, cmd, name, path) ==
    [errs |-> << [kind |-> kind, cmd |-> cmd, name |-> name, path |-> path] >>, exit |-> TRUE]

\* statement a followed by statement b
Then(a, b) == IF a.exit THEN a ELSE [errs |-> a.errs \o b.errs, exit |-> b.exit]

\* Position of the first item of s named name, 0 if there is none (for ... break / else).
RECURSIVE FirstNamedFrom(_, _, _)
FirstNamedFrom(s, name, i) ==
    IF i > Len(s) THEN 0
    ELSE IF s[i].name = name THEN i
    ELSE FirstNamedFrom(s, name, i + 1)

FirstNamed(s, name) == FirstNamedFrom(s, name, 1)

(***************************************************************************)
(* ALLOW_ANY_TYPE_LIST.  A name is kept as the list of the pieces it is    *)
(* concatenated from, so that "+" is concatenation and not pairing.        *)
(***************************************************************************)
Pieces(name) ==
    CASE name = "commandAllowedAnyTypes-param-anyTypeParam"
           -> <<"commandAllowedAnyTypes", "-param-", "anyTypeParam">>
      [] name = "commandAllowedAnyTypes-reply-anyTypeField"
           -> <<"commandAllowedAnyTypes", "-reply-", "anyTypeField">>
      [] OTHER -> <<name>>

ALLOW_ANY_TYPE_LIST ==
    { <<"commandAllowedAnyTypes">>,
      <<"commandAllowedAnyTypes", "-param-", "anyTypeParam">>,
      <<"commandAllowedAnyTypes", "-reply-", "anyTypeField">>,
      <<"oldTypeBsonAnyAllowList">>,
      <<"newTypeBsonAnyAllowList">>,
      <<"oldReplyFieldTypeBsonAnyAllowList", "-reply-", "oldBsonSerializationTypeAnyReplyField">>,
      <<"newReplyFieldTypeBsonAnyAllowList", "-reply-", "newBsonSerializationTypeAnyReplyField">>,
      <<"oldParamTypeBsonAnyAllowList", "-param-", "bsonTypeAnyParam">>,
      <<"newParamTypeBsonAnyAllowList", "-param-", "bsonTypeAnyParam">>,
      <<"commandAllowedAnyTypesWithVariant", "-reply-", "anyTypeField">>,
      <<"replyFieldTypeBsonAnyWithVariant", "-reply-", "bsonSerializationTypeAnyReplyField">>,
      <<"replyFieldCppTypeNotEqual", "-reply-", "cppTypeNotEqualReplyField">>,
      <<"commandCppTypeNotEqual">>,
      <<"commandParameterCppTypeNotEqual", "-param-", "cppTypeNotEqualParam">> }

\* cmd_name + "-reply-" + field_name
ReplyAllowName(cmd_name, field_name) == Pieces(cmd_name) \o <<"-reply-">> \o Pieces(field_name)

\* the allow name of a parameter taken to be the command's own
ParamAllowNameOfCommand(cmd_name, param_name, is_command_parameter) == Pieces(cmd_name)

\* cmd_name + "-param-" + param_name if is_command_parameter else cmd_name
ParamAllowName(cmd_name, param_name, is_command_parameter) ==
    IF is_command_parameter
    THEN Pieces(cmd_name) \o <<"-param-">> \o Pieces(param_name)
    ELSE Pieces(cmd_name)

(***************************************************************************)
(* check_subset / check_superset                                           *)
(***************************************************************************)
check_subset_widened(cmd_name, field_name, sub_list, super_list, file_path) ==
    IF ~(super_list \subseteq sub_list)
    THEN AddError("reply_field_not_subset", cmd_name, field_name, file_path)
    ELSE NoErrors

check_subset(cmd_name, field_name, sub_list, super_list, file_path) ==
    IF ~(sub_list \subseteq super_list)
    THEN AddError("reply_field_not_subset", cmd_name, field_name, file_path)
    ELSE NoErrors

check_superset_narrowed(cmd_name, super_list, sub_list, file_path, param_name) ==
    IF ~(super_list \subseteq sub_list)
    THEN AddError("command_or_param_type_not_superset", cmd_name, param_name, file_path)
    ELSE NoErrors

check_superset(cmd_name, super_list, sub_list, file_path, param_name) ==
    IF ~(sub_list \subseteq super_list)
    THEN AddError("command_or_param_type_not_superset", cmd_name, param_name, file_path)
    ELSE NoErrors

(***************************************************************************)
(* Reply side: check_reply_field_type_recursive, check_reply_field_type,   *)
(* check_reply_field, check_reply_fields.  O and N are the symbol tables   *)
(* of the old and the new file, op and np their paths.                     *)
(***************************************************************************)
RECURSIVE check_reply_field_type_recursive(_, _, _, _, _, _, _, _)
RECURSIVE ReplyVariantLoop(_, _, _, _, _, _, _, _, _)
RECURSIVE check_reply_field_type(_, _, _, _, _, _, _, _)
RECURSIVE check_reply_field(_, _, _, _, _, _, _)
RECURSIVE check_reply_fields(_, _, _, _, _, _, _)
RECURSIVE ReplyFieldsLoop(_, _, _, _, _, _, _, _)

\* the variant loop run over the old alternatives, as the parameter side runs it
RECURSIVE ReplyVariantLoopOverOld(_, _, _, _, _, _, _, _, _)
ReplyVariantLoopOverOld(old_variant_types, new_variant_types, i, cmd_name, field_name, O, N, op, np) ==
    IF i > Len(old_variant_types) THEN NoErrors
    ELSE LET old_variant_type == old_variant_types[i]
             j == FirstNamed(new_variant_types, old_variant_type.name)
             this == IF j # 0
                     THEN check_reply_field_type_recursive(old_variant_type,
                              new_variant_types[j], cmd_name, field_name, O, N, op, np)
                     ELSE AddError("new_reply_field_variant_type_not_subset", cmd_name,
                                   field_name, np)
         IN Then(this, ReplyVariantLoopOverOld(old_variant_types, new_variant_types, i + 1,
                                               cmd_name, field_name, O, N, op, np))

\* for new_variant_type in new_variant_types[i..]: ... (lines 184-196)
ReplyVariantLoop(old_variant_types, new_variant_types, i, cmd_name, field_name, O, N, op, np) ==
    IF i > Len(new_variant_types) THEN NoErrors
    ELSE LET new_variant_type == new_variant_types[i]
             j == FirstNamed(old_variant_types, new_variant_type.name)
             this == IF j # 0
                     THEN check_reply_field_type_recursive(old_variant_types[j],
                              new_variant_type, cmd_name, field_name, O, N, op, np)
                     ELSE AddError("new_reply_field_variant_type_not_subset", cmd_name,
                                   field_name, np)
         IN Then(this, ReplyVariantLoop(old_variant_types, new_variant_types, i + 1,
                                        cmd_name, field_name, O, N, op, np))

check_reply_field_type_recursive(old_field_type, new_field_type, cmd_name, field_name, O, N, op, np) ==
    IF ~IsType(new_field_type)
    THEN AddError("new_reply_field_type_enum_or_struct", cmd_name, field_name, np)
    ELSE IF "any" \in old_field_type.bson /\ "any" \notin new_field_type.bson
    THEN AddError("old_reply_field_bson_any", cmd_name, field_name, op)
    ELSE IF "any" \notin old_field_type.bson /\ "any" \in new_field_type.bson
    THEN AddError("new_reply_field_bson_any", cmd_name, field_name, np)
    ELSE IF "any" \in old_field_type.bson
            /\ ReplyAllowName(cmd_name, field_name) \notin ALLOW_ANY_TYPE_LIST
    THEN AddError("reply_field_bson_any_not_allowed", cmd_name, field_name, op)
    ELSE
      LET cppCheck ==
            IF "any" \in old_field_type.bson /\ old_field_type.cpp # new_field_type.cpp
            THEN AddError("reply_field_cpp_type_not_equal", cmd_name, field_name, np)
            ELSE NoErrors
          new_variant_types == IF IsVariant(new_field_type) THEN new_field_type.alts
                               ELSE <<new_field_type>>
          structCheck ==
            IF IsVariant(new_field_type) /\ new_field_type.vstruct # <<>>
            THEN IF old_field_type.vstruct = <<>>
                 THEN AddError("new_reply_field_variant_type_not_subset", cmd_name,
                               field_name, np)
                 ELSE check_reply_fields(old_field_type.vstruct[1],
                                         new_field_type.vstruct[1], cmd_name, O, N, op, np)
            ELSE NoErrors
          rest ==
            IF IsVariant(old_field_type)
            THEN Then(ReplyVariantLoop(old_field_type.alts, new_variant_types, 1, cmd_name,
                                       field_name, O, N, op, np),
                      structCheck)
            ELSE IF IsVariant(new_field_type)
                 THEN AddError("new_reply_field_variant_type", cmd_name, field_name, np)
                 ELSE check_subset(cmd_name, field_name, new_field_type.bson,
                                   old_field_type.bson, np)
      IN Then(cppCheck, rest)

check_reply_field_type(old_field_type, new_field_type, cmd_name, field_name, O, N, op, np) ==
    IF IsNone(old_field_type)
    THEN AddErrorAndExit("reply_field_type_invalid", cmd_name, field_name, op)
    ELSE IF IsNone(new_field_type)
    THEN AddErrorAndExit("reply_field_type_invalid", cmd_name, field_name, np)
    ELSE IF IsType(old_field_type)
    THEN check_reply_field_type_recursive(old_field_type, new_field_type, cmd_name,
                                          field_name, O, N, op, np)
    ELSE IF IsEnum(old_field_type)
    THEN IF IsEnum(new_field_type)
         THEN check_subset(cmd_name, field_name, new_field_type.values,
                           old_field_type.values, np)
         ELSE AddError("new_reply_field_type_not_enum", cmd_name, field_name, np)
    ELSE IF IsStruct(old_field_type)
    THEN IF IsStruct(new_field_type)
         THEN check_reply_fields(old_field_type, new_field_type, cmd_name, O, N, op, np)
         ELSE AddError("new_reply_field_type_not_struct", cmd_name, field_name, np)
    ELSE NoErrors

\* the validator checks of check_reply_field (lines 270-277)
ReplyValidatorCheck(old_field, new_field, cmd_name, np) ==
    IF new_field.validator # "none"
    THEN IF old_field.validator # "none"
         THEN IF new_field.validator # old_field.validator
              THEN AddError("reply_field_validators_not_equal", cmd_name, new_field.name, np)
              ELSE NoErrors
         ELSE AddError("reply_field_contains_validator", cmd_name, new_field.name, np)
    ELSE NoErrors

\* check_reply_field with the operands of the test of line 267 exchanged
ReplyFieldOptionalReversed(old_field, new_field, cmd_name, O, N, op, np) ==
    LET unstableCheck ==
          IF new_field.unstable
          THEN AddError("new_reply_field_unstable", cmd_name, new_field.name, np)
          ELSE NoErrors
        optionalCheck ==
          IF old_field.optional /\ ~new_field.optional
          THEN AddError("new_reply_field_optional", cmd_name, new_field.name, np)
          ELSE NoErrors
    IN Then(unstableCheck,
       Then(optionalCheck,
       Then(ReplyValidatorCheck(old_field, new_field, cmd_name, np),
            check_reply_field_type(get_field_type(old_field, O), get_field_type(new_field, N),
                                   cmd_name, old_field.name, O, N, op, np))))

check_reply_field(old_field, new_field, cmd_name, O, N, op, np) ==
    LET unstableCheck ==
          IF new_field.unstable
          THEN AddError("new_reply_field_unstable", cmd_name, new_field.name, np)
          ELSE NoErrors
        optionalCheck ==
          IF new_field.optional /\ ~old_field.optional
          THEN AddError("new_reply_field_optional", cmd_name, new_field.name, np)
          ELSE NoErrors
    IN Then(unstableCheck,
       Then(optionalCheck,
       Then(ReplyValidatorCheck(old_field, new_field, cmd_name, np),
            check_reply_field_type(get_field_type(old_field, O), get_field_type(new_field, N),
                                   cmd_name, old_field.name, O, N, op, np))))

\* whether check_reply_fields skips an old field altogether (lines 293-294)
ReplyFieldSkipped(old_field) == old_field.unstable

\* for old_field in old_reply.fields[i..]: ... (lines 292-306)
ReplyFieldsLoop(old_reply, new_reply, i, cmd_name, O, N, op, np) ==
    IF i > Len(old_reply.fields) THEN NoErrors
    ELSE LET old_field == old_reply.fields[i]
             j == FirstNamed(new_reply.fields, old_field.name)
             this == IF ReplyFieldSkipped(old_field) THEN NoErrors
                     ELSE IF j # 0
                     THEN check_reply_field(old_field, new_reply.fields[j], cmd_name,
                                            O, N, op, np)
                     ELSE AddError("new_reply_field_missing", cmd_name, old_field.name, op)
         IN Then(this, ReplyFieldsLoop(old_reply, new_reply, i + 1, cmd_name, O, N, op, np))

check_reply_fields(old_reply, new_reply, cmd_name, O, N, op, np) ==
    ReplyFieldsLoop(old_reply, new_reply, 1, cmd_name, O, N, op, np)

(***************************************************************************)
(* Parameter / command-type side: check_param_or_command_type_recursive,   *)
(* check_param_or_command_type, check_param_or_type_validator,             *)
(* check_command_params_or_type_struct_fields and                          *)
(* check_command_param_or_type_struct_field.  param_name is "" for None.   *)
(***************************************************************************)
RECURSIVE check_param_or_command_type_recursive(_, _, _, _, _, _, _, _, _)
RECURSIVE ParamVariantLoop(_, _, _, _, _, _, _, _, _, _)
RECURSIVE check_param_or_command_type(_, _, _, _, _, _, _, _, _)
RECURSIVE check_command_param_or_type_struct_field(_, _, _, _, _, _, _, _)
RECURSIVE check_command_params_or_type_struct_fields(_, _, _, _, _, _, _, _)
RECURSIVE ParamOldFieldsLoop(_, _, _, _, _, _, _, _, _)

\* the variant loop run over the new alternatives, as the reply side runs it
RECURSIVE ParamVariantLoopOverNew(_, _, _, _, _, _, _, _, _, _)
ParamVariantLoopOverNew(old_variant_types, new_variant_types, i, cmd_name, O, N, op, np, param_name, is_command_parameter) ==
    IF i > Len(new_variant_types) THEN NoErrors
    ELSE LET new_variant_type == new_variant_types[i]
             j == FirstNamed(old_variant_types, new_variant_type.name)
             this == IF j # 0
                     THEN check_param_or_command_type_recursive(old_variant_types[j],
                              new_variant_type, cmd_name, O, N, op, np, param_name,
                              is_command_parameter)
                     ELSE AddError("new_command_or_param_variant_type_not_superset",
                                   cmd_name, param_name, np)
         IN Then(this, ParamVariantLoopOverNew(old_variant_types, new_variant_types, i + 1,
                                               cmd_name, O, N, op, np, param_name,
                                               is_command_parameter))

\* for old_variant_type in old_variant_types[i..]: ... (lines 363-376)
ParamVariantLoop(old_variant_types, new_variant_types, i, cmd_name, O, N, op, np, param_name, is_command_parameter) ==
    IF i > Len(old_variant_types) THEN NoErrors
    ELSE LET old_variant_type == old_variant_types[i]
             j == FirstNamed(new_variant_types, old_variant_type.name)
             this == IF j # 0
                     THEN check_param_or_command_type_recursive(old_variant_type,
                              new_variant_types[j], cmd_name, O, N, op, np, param_name,
                              is_command_parameter)
                     ELSE AddError("new_command_or_param_variant_type_not_superset",
                                   cmd_name, param_name, np)
         IN Then(this, ParamVariantLoop(old_variant_types, new_variant_types, i + 1,
                                        cmd_name, O, N, op, np, param_name,
                                        is_command_parameter))

check_param_or_command_type_recursive(old_type, new_type, cmd_name, O, N, op, np, param_name, is_command_parameter) ==
    IF ~IsType(new_type)
    THEN AddError("new_command_or_param_type_enum_or_struct", cmd_name, param_name, np)
    ELSE IF "any" \in old_type.bson /\ "any" \notin new_type.bson
    THEN AddError("old_command_or_param_type_bson_any", cmd_name, param_name, op)
    ELSE IF "any" \notin old_type.bson /\ "any" \in new_type.bson
    THEN AddError("new_command_or_param_type_bson_any", cmd_name, param_name, np)
    ELSE IF "any" \in old_type.bson
            /\ ParamAllowName(cmd_name, param_name, is_command_parameter)
                   \notin ALLOW_ANY_TYPE_LIST
    THEN AddError("command_or_param_type_bson_any_not_allowed", cmd_name, param_name, op)
    ELSE
      LET cppCheck ==
            IF "any" \in old_type.bson /\ old_type.cpp # new_type.cpp
            THEN AddError("command_or_param_cpp_type_not_equal", cmd_name, param_name, np)
            ELSE NoErrors
          structCheck ==
            IF old_type.vstruct # <<>>
            THEN IF new_type.vstruct # <<>>
                 THEN check_command_params_or_type_struct_fields(old_type.vstruct[1],
                          new_type.vstruct[1], cmd_name, O, N, op, np, is_command_parameter)
                 ELSE AddError("new_command_or_param_variant_type_not_superset", cmd_name,
                               param_name, np)
            ELSE NoErrors
          rest ==
            IF IsVariant(old_type)
            THEN IF ~IsVariant(new_type)
                 THEN AddError("new_command_or_param_type_not_variant_type", cmd_name,
                               param_name, np)
                 ELSE Then(ParamVariantLoop(old_type.alts, new_type.alts, 1, cmd_name,
                                            O, N, op, np, param_name, is_command_parameter),
                           structCheck)
            ELSE check_superset(cmd_name, new_type.bson, old_type.bson, np, param_name)
      IN Then(cppCheck, rest)

check_param_or_command_type(old_type, new_type, cmd_name, O, N, op, np, param_name, is_command_parameter) ==
    IF IsNone(old_type)
    THEN AddErrorAndExit("command_or_param_type_invalid", cmd_name, param_name, op)
    ELSE IF IsNone(new_type)
    THEN AddErrorAndExit("command_or_param_type_invalid", cmd_name, param_name, np)
    ELSE IF IsType(old_type)
    THEN check_param_or_command_type_recursive(old_type, new_type, cmd_name, O, N, op, np,
                                               param_name, is_command_parameter)
    ELSE IF IsEnum(old_type)
    THEN IF IsEnum(new_type)
         THEN check_superset(cmd_name, new_type.values, old_type.values, np, param_name)
         ELSE AddError("new_command_or_param_type_not_enum", cmd_name, param_name, np)
    ELSE IF IsStruct(old_type)
    THEN IF IsStruct(new_type)
         THEN check_command_params_or_type_struct_fields(old_type, new_type, cmd_name,
                                                         O, N, op, np, is_command_parameter)
         ELSE AddError("new_command_or_param_type_not_struct", cmd_name, param_name, np)
    ELSE NoErrors

\* check_param_or_type_validator without the else branch of lines 459-461
ValidatorChangedOnly(old_field, new_field, cmd_name, np) ==
    IF new_field.validator # "none" /\ old_field.validator # "none"
       /\ new_field.validator # old_field.validator
    THEN AddError("command_or_param_type_validators_not_equal", cmd_name, new_field.name, np)
    ELSE NoErrors

check_param_or_type_validator(old_field, new_field, cmd_name, np) ==
    IF new_field.validator # "none"
    THEN IF old_field.validator # "none"
         THEN IF new_field.validator # old_field.validator
              THEN AddError("command_or_param_type_validators_not_equal", cmd_name,
                            new_field.name, np)
              ELSE NoErrors
         ELSE AddError("command_or_param_type_contains_validator", cmd_name,
                       new_field.name, np)
    ELSE NoErrors

\* check_command_param_or_type_struct_field without the test of line 508
StructFieldWithoutStableRequired(old_field, new_field, cmd_name, O, N, op, np, is_command_parameter) ==
    LET unstableCheck ==
          IF ~old_field.unstable /\ new_field.unstable
          THEN AddError("new_param_or_command_type_field_unstable", cmd_name,
                        old_field.name, op)
          ELSE NoErrors
        requiredCheck ==
          IF old_field.optional /\ ~new_field.optional
          THEN AddError("new_param_or_command_type_field_required", cmd_name,
                        old_field.name, op)
          ELSE NoErrors
    IN Then(unstableCheck,
       Then(requiredCheck,
       Then(check_param_or_type_validator(old_field, new_field, cmd_name, np),
            check_param_or_command_type(get_field_type(old_field, O),
                                        get_field_type(new_field, N), cmd_name, O, N, op, np,
                                        old_field.name, is_command_parameter))))

check_command_param_or_type_struct_field(old_field, new_field, cmd_name, O, N, op, np, is_command_parameter) ==
    LET unstableCheck ==
          IF ~old_field.unstable /\ new_field.unstable
          THEN AddError("new_param_or_command_type_field_unstable", cmd_name,
                        old_field.name, op)
          ELSE NoErrors
        stableRequiredCheck ==
          IF old_field.unstable /\ ~new_field.optional /\ ~new_field.unstable
          THEN AddError("new_param_or_command_type_field_stable_required", cmd_name,
                        old_field.name, op)
          ELSE NoErrors
        requiredCheck ==
          IF old_field.optional /\ ~new_field.optional
          THEN AddError("new_param_or_command_type_field_required", cmd_name,
                        old_field.name, op)
          ELSE NoErrors
    IN Then(unstableCheck,
       Then(stableRequiredCheck,
       Then(requiredCheck,
       Then(check_param_or_type_validator(old_field, new_field, cmd_name, np),
            check_param_or_command_type(get_field_type(old_field, O),
                                        get_field_type(new_field, N), cmd_name, O, N, op, np,
                                        old_field.name, is_command_parameter)))))

\* whether a removed old field is reported (line 481, given new_field_exists = False)
RemovedFieldReportedAlways(old_field) == TRUE

RemovedFieldReported(old_field) == ~old_field.unstable

\* for old_field in old_struct.fields[i..]: ... (lines 470-483)
ParamOldFieldsLoop(old_struct, new_struct, i, cmd_name, O, N, op, np, is_command_parameter) ==
    IF i > Len(old_struct.fields) THEN NoErrors
    ELSE LET old_field == old_struct.fields[i]
             j == FirstNamed(new_struct.fields, old_field.name)
             this == IF j # 0
                     THEN check_command_param_or_type_struct_field(old_field,
                              new_struct.fields[j], cmd_name, O, N, op, np,
                              is_command_parameter)
                     ELSE IF RemovedFieldReported(old_field)
                     THEN AddError("new_param_or_command_type_field_missing", cmd_name,
                                   old_field.name, op)
                     ELSE NoErrors
         IN Then(this, ParamOldFieldsLoop(old_struct, new_struct, i + 1, cmd_name, O, N,
                                          op, np, is_command_parameter))

\* whether a field of the new struct is reported as added and required (lines 488-493)
AddedRequiredIgnoringUnstable(new_field, old_struct) ==
    /\ \A k \in DOMAIN old_struct.fields : old_struct.fields[k].name # new_field.name
    /\ ~new_field.optional

AddedRequired(new_field, old_struct) ==
    /\ \A k \in DOMAIN old_struct.fields : old_struct.fields[k].name # new_field.name
    /\ ~new_field.optional
    /\ ~new_field.unstable

\* for new_field in new_struct.fields[i..]: ... (lines 487-495)
RECURSIVE ParamNewFieldsLoop(_, _, _, _, _)
ParamNewFieldsLoop(old_struct, new_struct, i, cmd_name, np) ==
    IF i > Len(new_struct.fields) THEN NoErrors
    ELSE LET new_field == new_struct.fields[i]
             this == IF AddedRequired(new_field, old_struct)
                     THEN AddError("new_param_or_command_type_field_added_required",
                                   cmd_name, new_field.name, np)
                     ELSE NoErrors
         IN Then(this, ParamNewFieldsLoop(old_struct, new_struct, i + 1, cmd_name, np))

check_command_params_or_type_struct_fields(old_struct, new_struct, cmd_name, O, N, op, np, is_command_parameter) ==
    Then(ParamOldFieldsLoop(old_struct, new_struct, 1, cmd_name, O, N, op, np,
                            is_command_parameter),
         ParamNewFieldsLoop(old_struct, new_struct, 1, cmd_name, np))

(***************************************************************************)
(* check_namespace (common.COMMAND_NAMESPACE_* are the four strings).      *)
(***************************************************************************)
COMMAND_NAMESPACE_IGNORED == "ignored"
COMMAND_NAMESPACE_CONCATENATE_WITH_DB == "concatenate_with_db"
COMMAND_NAMESPACE_CONCATENATE_WITH_DB_OR_UUID == "concatenate_with_db_or_uuid"
COMMAND_NAMESPACE_TYPE == "type"

\* check_namespace without the exemption of line 559 for "namespacestring"
NamespaceWithoutExemption(old_cmd, new_cmd, O, N, op, np) ==
    LET old_namespace == old_cmd.namespace
        new_namespace == new_cmd.namespace
        incompatible == AddError("new_namespace_incompatible", old_cmd.command_name, "", np)
    IN
    IF old_namespace = COMMAND_NAMESPACE_IGNORED
    THEN IF new_namespace # COMMAND_NAMESPACE_IGNORED THEN incompatible ELSE NoErrors
    ELSE IF old_namespace = COMMAND_NAMESPACE_CONCATENATE_WITH_DB_OR_UUID
    THEN IF new_namespace \notin {COMMAND_NAMESPACE_IGNORED,
                                  COMMAND_NAMESPACE_CONCATENATE_WITH_DB_OR_UUID}
         THEN incompatible ELSE NoErrors
    ELSE IF old_namespace = COMMAND_NAMESPACE_CONCATENATE_WITH_DB
    THEN IF new_namespace = COMMAND_NAMESPACE_TYPE THEN incompatible ELSE NoErrors
    ELSE
      IF new_namespace = COMMAND_NAMESPACE_TYPE
      THEN check_param_or_command_type(get_field_type(old_cmd, O), get_field_type(new_cmd, N),
                                       old_cmd.command_name, O, N, op, np, "", FALSE)
      ELSE IF new_namespace # COMMAND_NAMESPACE_IGNORED THEN incompatible ELSE NoErrors

check_namespace(old_cmd, new_cmd, O, N, op, np) ==
    LET old_namespace == old_cmd.namespace
        new_namespace == new_cmd.namespace
        incompatible == AddError("new_namespace_incompatible", old_cmd.command_name, "", np)
    IN
    IF old_namespace = COMMAND_NAMESPACE_IGNORED
    THEN IF new_namespace # COMMAND_NAMESPACE_IGNORED THEN incompatible ELSE NoErrors
    ELSE IF old_namespace = COMMAND_NAMESPACE_CONCATENATE_WITH_DB_OR_UUID
    THEN IF new_namespace \notin {COMMAND_NAMESPACE_IGNORED,
                                  COMMAND_NAMESPACE_CONCATENATE_WITH_DB_OR_UUID}
         THEN incompatible ELSE NoErrors
    ELSE IF old_namespace = COMMAND_NAMESPACE_CONCATENATE_WITH_DB
    THEN IF new_namespace = COMMAND_NAMESPACE_TYPE THEN incompatible ELSE NoErrors
    ELSE \* COMMAND_NAMESPACE_TYPE
      LET old_type == get_field_type(old_cmd, O)
      IN IF new_namespace = COMMAND_NAMESPACE_TYPE
         THEN check_param_or_command_type(old_type, get_field_type(new_cmd, N),
                                          old_cmd.command_name, O, N, op, np, "", FALSE)
         ELSE IF IsNone(old_type)
         THEN [errs |-> <<>>, exit |-> TRUE]   \* old_type.name raises AttributeError
         ELSE IF old_type.name # "namespacestring"
                 /\ new_namespace # COMMAND_NAMESPACE_IGNORED
         THEN incompatible ELSE NoErrors

(***************************************************************************)
(* get_new_commands and the loop body of check_compatibility.  A tree      *)
(* holds the commands of its files in os.walk order, each with the path of *)
(* its file.                                                               *)
(***************************************************************************)
Command(command_name, api_version, imported, namespace, type, fields, reply_type, path) ==
    [command_name |-> command_name, name |-> command_name, api_version |-> api_version,
     imported |-> imported, namespace |-> namespace, type |-> type, fields |-> fields,
     reply_type |-> reply_type, path |-> path]

\* the skip test without its "or new_cmd.imported"
SkippedWhenUnversioned(cmd) == cmd.api_version = ""

\* the commands get_new_commands / check_compatibility skip without a word (lines 88, 633)
Skipped(cmd) == cmd.api_version = "" \/ cmd.imported

\* get_new_commands storing every version-"1" definition under its name, the last
\* one scanned replacing the earlier ones
RECURSIVE GetNewCommandsLastWins(_, _, _)
GetNewCommandsLastWins(cmds, i, acc) ==
    IF i > Len(cmds) THEN acc
    ELSE LET new_cmd == cmds[i]
             next ==
               IF Skipped(new_cmd) THEN acc
               ELSE IF new_cmd.api_version # "1"
               THEN [acc EXCEPT !.errs = @ \o AddError("command_invalid_api_version",
                                       new_cmd.command_name, "", new_cmd.path).errs]
               ELSE IF new_cmd.command_name \in DOMAIN acc.map
               THEN [acc EXCEPT !.errs = @ \o AddError("duplicate_command_name",
                                       new_cmd.command_name, "", new_cmd.path).errs,
                                !.map = (new_cmd.command_name :> new_cmd) @@ @]
               ELSE [acc EXCEPT !.map = (new_cmd.command_name :> new_cmd) @@ @]
         IN GetNewCommandsLastWins(cmds, i + 1, next)

\* for new_cmd in ...commands[i..]: ... (lines 86-104); acc = [map, errs]
RECURSIVE GetNewCommandsFrom(_, _, _)
GetNewCommandsFrom(cmds, i, acc) ==
    IF i > Len(cmds) THEN acc
    ELSE LET new_cmd == cmds[i]
             next ==
               IF Skipped(new_cmd) THEN acc
               ELSE IF new_cmd.api_version # "1"
               THEN [acc EXCEPT !.errs = @ \o AddError("command_invalid_api_version",
                                       new_cmd.command_name, "", new_cmd.path).errs]
               ELSE IF new_cmd.command_name \in DOMAIN acc.map
               THEN [acc EXCEPT !.errs = @ \o AddError("duplicate_command_name",
                                       new_cmd.command_name, "", new_cmd.path).errs]
               ELSE [acc EXCEPT !.map = (new_cmd.command_name :> new_cmd) @@ @]
         IN GetNewCommandsFrom(cmds, i + 1, next)

get_new_commands(tree) == GetNewCommandsFrom(tree.commands, 1, [map |-> <<>>, errs |-> <<>>])

\* whether an old command that was stored is reported as removed (line 649)
Removed(old_cmd, newCommands) == old_cmd.command_name \notin DOMAIN newCommands

\* ScanOldCommand with the removal test made before the duplicate test
ScanOldCommandRemovedFirst(old_cmd, oldCommands, newCommands, O, N) ==
    IF Skipped(old_cmd) THEN [store |-> FALSE, res |-> NoErrors]
    ELSE IF old_cmd.api_version # "1"
    THEN [store |-> FALSE,
          res |-> AddError("command_invalid_api_version", old_cmd.command_name, "",
                           old_cmd.path)]
    ELSE IF Removed(old_cmd, newCommands)
    THEN [store |-> TRUE,
          res |-> AddError("command_removed", old_cmd.command_name, "", old_cmd.path)]
    ELSE IF old_cmd.command_name \in DOMAIN oldCommands
    THEN [store |-> FALSE,
          res |-> AddError("duplicate_command_name", old_cmd.command_name, "",
                           old_cmd.path)]
    ELSE LET new_cmd == newCommands[old_cmd.command_name]
             op == old_cmd.path
             np == new_cmd.path
         IN [store |-> TRUE,
             res |-> Then(check_command_params_or_type_struct_fields(old_cmd, new_cmd,
                              old_cmd.command_name, O, N, op, np, TRUE),
                     Then(check_namespace(old_cmd, new_cmd, O, N, op, np),
                          check_reply_fields(get_struct(O, old_cmd.reply_type),
                                             get_struct(N, new_cmd.reply_type),
                                             old_cmd.command_name, O, N, op, np)))]

\* The body of "for old_cmd in old_idl_file.spec.symbols.commands" (lines 631-670):
\* [store: whether old_commands gets the name, res: the errors added]
ScanOldCommand(old_cmd, oldCommands, newCommands, O, N) ==
    IF Skipped(old_cmd) THEN [store |-> FALSE, res |-> NoErrors]
    ELSE IF old_cmd.api_version # "1"
    THEN [store |-> FALSE,
          res |-> AddError("command_invalid_api_version", old_cmd.command_name, "",
                           old_cmd.path)]
    ELSE IF old_cmd.command_name \in DOMAIN oldCommands
    THEN [store |-> FALSE,
          res |-> AddError("duplicate_command_name", old_cmd.command_name, "",
                           old_cmd.path)]
    ELSE IF Removed(old_cmd, newCommands)
    THEN [store |-> TRUE,
          res |-> AddError("command_removed", old_cmd.command_name, "", old_cmd.path)]
    ELSE LET new_cmd == newCommands[old_cmd.command_name]
             op == old_cmd.path
             np == new_cmd.path
         IN [store |-> TRUE,
             res |-> Then(check_command_params_or_type_struct_fields(old_cmd, new_cmd,
                              old_cmd.command_name, O, N, op, np, TRUE),
                     Then(check_namespace(old_cmd, new_cmd, O, N, op, np),
                          check_reply_fields(get_struct(O, old_cmd.reply_type),
                                             get_struct(N, new_cmd.reply_type),
                                             old_cmd.command_name, O, N, op, np)))]

(***************************************************************************)
(* The inputs of the checker: the type library both trees share, and the   *)
(* families of (old tree, new tree) pairs the model starts from.           *)
(***************************************************************************)
TString == TypeNode("string", {"string"}, "std::string")
TInt == TypeNode("int", {"int"}, "std::int32_t")
TStrInt == TypeNode("strint", {"string", "int"}, "StrInt")
TWideString == TypeNode("string", {"string", "int"}, "std::string")
TAnyA == TypeNode("anyA", {"any"}, "A")
TAnyB == TypeNode("anyB", {"any"}, "B")
TNss == TypeNode("namespacestring", {"string"}, "NamespaceString")
SOne == StructNode("S1", << Field("f", FALSE, FALSE, "none", "string") >>)
STwo == StructNode("S2", << Field("f", FALSE, FALSE, "none", "strint"),
                            Field("g", FALSE, FALSE, "none", "int") >>)

\* S1 with its field optional, unstable, or both
SOptional == StructNode("SOptional", << Field("f", TRUE, FALSE, "none", "string") >>)
SUnstable == StructNode("SUnstable", << Field("f", FALSE, TRUE, "none", "string") >>)
SOptionalUnstable ==
    StructNode("SOptionalUnstable", << Field("f", TRUE, TRUE, "none", "string") >>)

Library ==
    ("string" :> TString) @@ ("int" :> TInt) @@ ("strint" :> TStrInt)
    @@ ("anyA" :> TAnyA) @@ ("anyB" :> TAnyB) @@ ("namespacestring" :> TNss)
    @@ ("varSI" :> VariantNode("varSI", <<TString, TInt>>, <<>>))
    @@ ("varS" :> VariantNode("varS", <<TString>>, <<>>))
    @@ ("varWide" :> VariantNode("varWide", <<TWideString>>, <<>>))
    @@ ("varSst" :> VariantNode("varSst", <<TString>>, <<SOne>>))
    @@ ("varIst" :> VariantNode("varIst", <<TInt>>, <<STwo>>))
    @@ ("enumAB" :> EnumNode("enumAB", {"a", "b"}))
    @@ ("enumA" :> EnumNode("enumA", {"a"}))
    @@ ("S1" :> SOne) @@ ("S2" :> STwo)
    @@ ("SOptional" :> SOptional) @@ ("SUnstable" :> SUnstable)
    @@ ("SOptionalUnstable" :> SOptionalUnstable)

\* the type names a field may carry; "missing" resolves to nothing
TypeNames == DOMAIN Library \cup {"missing"}
PlainTypeNames == {"string", "int", "strint", "namespacestring", "missing"}
Validators == {"none", "v1", "v2"}
Namespaces == {COMMAND_NAMESPACE_IGNORED, COMMAND_NAMESPACE_CONCATENATE_WITH_DB,
               COMMAND_NAMESPACE_CONCATENATE_WITH_DB_OR_UUID, COMMAND_NAMESPACE_TYPE}

AllFieldNames == <<"p", "q", "r">>
FieldNames == {AllFieldNames[i] : i \in 1..MaxFields} \cap Range(AllFieldNames)

\* a tree: its commands, and the fields of its reply struct "Reply"
Tree(commands, replyFields) == [reply |-> replyFields, commands |-> commands]

\* the symbol table of a tree's files: the library and the tree's reply struct
Symbols(tree) == ("Reply" :> StructNode("Reply", tree.reply)) @@ Library

OneCommand(side, fields, namespace, type) ==
    << Command("c", "1", FALSE, namespace, type, fields, "Reply", <<side, 1>>) >>

\* field lists without a repeated name, attributes drawn from the given sets
FieldLists(optionals, unstables) ==
    { s \in SeqsUpTo({Field(n, o, u, "none", "string") :
                          n \in FieldNames, o \in optionals, u \in unstables}, MaxFields) :
          DistinctNames(s) }

\* one parameter (or reply field) on both sides, every attribute varied
AttributePairs ==
    { <<Field("p", oo, ou, ov, "string"), Field("p", no, nu, nv, "string")>> :
          oo \in BOOLEAN, ou \in BOOLEAN, ov \in Validators,
          no \in BOOLEAN, nu \in BOOLEAN, nv \in Validators }

\* one parameter (or reply field) on both sides, every pair of types
TypePairs ==
    { <<Field("p", FALSE, ou, "none", ot), Field("p", FALSE, FALSE, "none", nt)>> :
          ou \in BOOLEAN, ot \in TypeNames, nt \in TypeNames }

\* the trees of one command "c" with the given parameters and reply fields
OldOf(fields, replyFields) ==
    Tree(OneCommand("old", fields, COMMAND_NAMESPACE_IGNORED, "string"), replyFields)

NewOf(fields, replyFields) ==
    Tree(OneCommand("new", fields, COMMAND_NAMESPACE_IGNORED, "string"), replyFields)

ParamScenario ==
    \/ \E pr \in AttributePairs \cup TypePairs :
          /\ oldTree = OldOf(<<pr[1]>>, <<>>)
          /\ newTree = NewOf(<<pr[2]>>, <<>>)
    \/ \E of \in FieldLists({FALSE}, BOOLEAN), nf \in FieldLists(BOOLEAN, BOOLEAN) :
          /\ oldTree = OldOf(of, <<>>)
          /\ newTree = NewOf(nf, <<>>)

ReplyScenario ==
    \/ \E pr \in AttributePairs \cup TypePairs :
          /\ oldTree = OldOf(<<>>, <<pr[1]>>)
          /\ newTree = NewOf(<<>>, <<pr[2]>>)
    \/ \E of \in FieldLists({FALSE}, BOOLEAN), nf \in FieldLists(BOOLEAN, BOOLEAN) :
          /\ oldTree = OldOf(<<>>, of)
          /\ newTree = NewOf(<<>>, nf)

NamespaceScenario ==
    \E ons \in Namespaces, nns \in Namespaces,
       ot \in PlainTypeNames \cup {"S1", "S2"}, nt \in PlainTypeNames \cup {"S1", "S2"} :
          /\ oldTree = Tree(OneCommand("old", <<>>, ons, ot), <<>>)
          /\ newTree = Tree(OneCommand("new", <<>>, nns, nt), <<>>)

\* the command definitions a scanned file may hold: "c" in every flavour, "d" plain
CommandFlavours ==
    { [command_name |-> "c", api_version |-> v, imported |-> FALSE] : v \in {"", "1", "2"} }
    \cup { [command_name |-> "c", api_version |-> "1", imported |-> TRUE],
           [command_name |-> "d", api_version |-> "1", imported |-> FALSE] }

CommandLists(side, fields) ==
    { [i \in DOMAIN fl |->
          Command(fl[i].command_name, fl[i].api_version, fl[i].imported,
                  COMMAND_NAMESPACE_IGNORED, "string", fields, "Reply", <<side, i>>)] :
          fl \in SeqsUpTo(CommandFlavours, MaxCmds) }

\* old commands take a parameter p and reply r; new ones a required parameter q only
TreeScenario ==
    \E oc \in CommandLists("old", << Field("p", FALSE, FALSE, "none", "string") >>),
       nc \in CommandLists("new", << Field("q", FALSE, FALSE, "none", "string") >>) :
          /\ oldTree = Tree(oc, << Field("r", FALSE, FALSE, "none", "string") >>)
          /\ newTree = Tree(nc, <<>>)

\* one command of the given name on one side
NamedCommand(side, command_name, fields, namespace, type) ==
    << Command(command_name, "1", FALSE, namespace, type, fields, "Reply", <<side, 1>>) >>

\* command "c" with a field p whose type may not resolve, as a parameter or as a
\* reply field, before siblings the new version drops: a parameter q, a reply field
\* r and a command "d"
SiblingScenario ==
    \E ot \in {"string", "missing"}, nt \in {"string", "missing"}, asParam \in BOOLEAN :
       LET p(t) == << Field("p", FALSE, FALSE, "none", t) >>
           q == << Field("q", FALSE, FALSE, "none", "string") >>
           r == << Field("r", FALSE, FALSE, "none", "string") >>
           d == << Command("d", "1", FALSE, COMMAND_NAMESPACE_IGNORED, "string", <<>>,
                           "Reply", <<"old", 2>>) >>
       IN /\ oldTree = Tree(OneCommand("old", IF asParam THEN p(ot) \o q ELSE q,
                                       COMMAND_NAMESPACE_IGNORED, "string") \o d,
                            IF asParam THEN r ELSE p(ot) \o r)
          /\ newTree = Tree(OneCommand("new", IF asParam THEN p(nt) ELSE <<>>,
                                       COMMAND_NAMESPACE_IGNORED, "string"),
                            IF asParam THEN <<>> ELSE p(nt))

\* the names the allow-list knows, next to names it does not know
AllowedCommand == "commandAllowedAnyTypes"
AllowedParam == "anyTypeParam"
AllowedReplyField == "anyTypeField"
AnyTypeNames == {"string", "anyA", "anyB"}

\* a command type on both sides, every pair of types, under a listed and an unlisted name
CommandTypeScenario ==
    \E c \in {"c", AllowedCommand}, ot \in TypeNames, nt \in TypeNames :
          /\ oldTree = Tree(NamedCommand("old", c, <<>>, COMMAND_NAMESPACE_TYPE, ot), <<>>)
          /\ newTree = Tree(NamedCommand("new", c, <<>>, COMMAND_NAMESPACE_TYPE, nt), <<>>)

\* the listed command with its listed parameter and reply field, and an unlisted
\* parameter of the listed command
AllowListScenario ==
    \E n \in {AllowedParam, "p"}, ot \in AnyTypeNames, nt \in AnyTypeNames,
       ort \in AnyTypeNames, nrt \in AnyTypeNames :
          /\ oldTree = Tree(NamedCommand("old", AllowedCommand,
                                << Field(n, FALSE, FALSE, "none", ot) >>,
                                COMMAND_NAMESPACE_IGNORED, "string"),
                            << Field(AllowedReplyField, FALSE, FALSE, "none", ort) >>)
          /\ newTree = Tree(NamedCommand("new", AllowedCommand,
                                << Field(n, FALSE, FALSE, "none", nt) >>,
                                COMMAND_NAMESPACE_IGNORED, "string"),
                            << Field(AllowedReplyField, FALSE, FALSE, "none", nrt) >>)

\* up to MaxDuplicates definitions of command "c" in each tree, each in a file of its
\* own and each with or without a required parameter p
DuplicateScenario ==
    \E od \in SeqsUpTo(BOOLEAN, MaxDuplicates), nd \in SeqsUpTo(BOOLEAN, MaxDuplicates) :
       LET p == << Field("p", FALSE, FALSE, "none", "string") >>
           defs(side, d) ==
               [i \in DOMAIN d |->
                   Command("c", "1", FALSE, COMMAND_NAMESPACE_IGNORED, "string",
                           IF d[i] THEN p ELSE <<>>, "Reply", <<side, i>>)]
       IN /\ od # <<>> /\ nd # <<>>
          /\ oldTree = Tree(defs("old", od), <<>>)
          /\ newTree = Tree(defs("new", nd), <<>>)

(***************************************************************************)
(* check_compatibility as a state machine: get_new_commands, then one step *)
(* per old command, then dump_errors.                                      *)
(***************************************************************************)
\* main is not running: check_compatibility was called on its own
NoBasic == [has |-> FALSE, fields |-> <<>>]
Running == 0 - 1
MainIdle ==
    /\ oldBasic = NoBasic /\ newBasic = NoBasic /\ mpc = "idle"
    /\ error_reply_coll = <<>> /\ exit_status = Running

CodecIdle ==
    /\ struct = <<>> /\ doc = <<>> /\ object = <<>> /\ other = <<>>
    /\ parsed = <<>> /\ cmp = <<>> /\ gpc = "idle"

\* no generator process runs
GenIdle == ast = <<>> /\ sys_argv = <<>> /\ files = <<>> /\ last = <<>> /\ calls = 0

ExecIdle == executor = <<>>

LibIdle == libdeps = <<>>

ExtIdle == GenIdle /\ ExecIdle /\ LibIdle

CompatInit ==
    /\ (ParamScenario \/ ReplyScenario \/ NamespaceScenario \/ TreeScenario
        \/ CommandTypeScenario \/ AllowListScenario \/ SiblingScenario
        \/ DuplicateScenario)
    /\ cpc = "get_new_commands"
    /\ new_commands = <<>>
    /\ old_commands = <<>>
    /\ oldIdx = 1
    /\ errors = <<>>
    /\ CodecIdle
    /\ ExtIdle
    /\ MainIdle

GetNewCommands ==
    /\ cpc = "get_new_commands"
    /\ LET got == get_new_commands(newTree)
       IN /\ new_commands' = got.map
          /\ errors' = errors \o got.errs
    /\ cpc' = "scan_old"
    /\ UNCHANGED <<oldTree, newTree, old_commands, oldIdx>>
    /\ UNCHANGED codecVars
    /\ UNCHANGED extVars
    /\ UNCHANGED mainVars

CheckOldCommand ==
    /\ cpc = "scan_old"
    /\ oldIdx <= Len(oldTree.commands)
    /\ LET old_cmd == oldTree.commands[oldIdx]
           scan == ScanOldCommand(old_cmd, old_commands, new_commands,
                                  Symbols(oldTree), Symbols(newTree))
       IN /\ old_commands' = IF scan.store
                             THEN (old_cmd.command_name :> old_cmd) @@ old_commands
                             ELSE old_commands
          /\ errors' = errors \o scan.res.errs
          /\ cpc' = IF scan.res.exit THEN "exit" ELSE "scan_old"
    /\ oldIdx' = oldIdx + 1
    /\ UNCHANGED <<oldTree, newTree, new_commands>>
    /\ UNCHANGED codecVars
    /\ UNCHANGED extVars
    /\ UNCHANGED mainVars

DumpErrors ==
    /\ cpc = "scan_old"
    /\ oldIdx > Len(oldTree.commands)
    /\ cpc' = "done"
    /\ UNCHANGED <<oldTree, newTree, new_commands, old_commands, oldIdx, errors>>
    /\ UNCHANGED codecVars
    /\ UNCHANGED extVars
    /\ UNCHANGED mainVars

CompatNext == GetNewCommands \/ CheckOldCommand \/ DumpErrors

SpecCompat == CompatInit /\ [][CompatNext]_vars

(***************************************************************************)
(* main: check_compatibility, then check_error_reply over the two          *)
(* basic_types files, and the exit status (specification SpecMain).        *)
(***************************************************************************)
\* IDLCompatibilityErrorCollection.has_errors
has_errors(coll) == coll # <<>>

\* What evaluating error_coll.errors (line 687) gives.  check_compatibility returns
\* ctxt.errors, the collection itself, on which line 693 calls has_errors()
\* directly: the attribute either names the collection again or does not exist.
AttributeOutcomes == {"collection", "AttributeError"}

\* the symbols of a basic_types file
BasicSymbols(basic) ==
    IF basic.has THEN ("ErrorReply" :> StructNode("ErrorReply", basic.fields)) @@ Library
    ELSE Library

OldBasicPath == <<"old", "mongo/idl/basic_types.idl">>
NewBasicPath == <<"new", "mongo/idl/basic_types.idl">>

\* check_error_reply without the test of line 594
ErrorReplyOldOnly(old_basic, new_basic) ==
    LET O == BasicSymbols(old_basic)
        N == BasicSymbols(new_basic)
        old_error_reply_struct == get_struct(O, "ErrorReply")
        new_error_reply_struct == get_struct(N, "ErrorReply")
    IN IF IsNone(old_error_reply_struct)
       THEN AddError("missing_error_reply", "", "", OldBasicPath)
       ELSE check_reply_fields(old_error_reply_struct, new_error_reply_struct, "n/a",
                               O, N, OldBasicPath, NewBasicPath)

check_error_reply(old_basic, new_basic) ==
    LET O == BasicSymbols(old_basic)
        N == BasicSymbols(new_basic)
        old_error_reply_struct == get_struct(O, "ErrorReply")
        new_error_reply_struct == get_struct(N, "ErrorReply")
    IN IF IsNone(old_error_reply_struct)
       THEN AddError("missing_error_reply", "", "", OldBasicPath)
       ELSE IF IsNone(new_error_reply_struct)
       THEN AddError("missing_error_reply", "", "", NewBasicPath)
       ELSE check_reply_fields(old_error_reply_struct, new_error_reply_struct, "n/a",
                               O, N, OldBasicPath, NewBasicPath)

\* the basic_types files: without ErrorReply, or with one of these ErrorReply structs
BasicFiles ==
    { NoBasic }
    \cup { [has |-> TRUE, fields |-> fs] :
              fs \in { <<>>,
                       << Field("code", FALSE, FALSE, "none", "int") >>,
                       << Field("code", FALSE, FALSE, "none", "strint") >>,
                       << Field("code", FALSE, FALSE, "none", "missing") >> } }

MainInit ==
    /\ (NamespaceScenario \/ AllowListScenario \/ SiblingScenario)
    /\ cpc = "get_new_commands"
    /\ new_commands = <<>>
    /\ old_commands = <<>>
    /\ oldIdx = 1
    /\ errors = <<>>
    /\ oldBasic \in BasicFiles
    /\ newBasic \in BasicFiles
    /\ mpc = "check_compatibility"
    /\ error_reply_coll = <<>>
    /\ exit_status = Running
    /\ CodecIdle
    /\ ExtIdle

\* check_compatibility ended the process: sys.exit(1), or an exception nobody catches
MainAborted ==
    /\ mpc = "check_compatibility"
    /\ cpc = "exit"
    /\ exit_status' = 1
    /\ mpc' = "exited"
    /\ UNCHANGED <<oldTree, newTree, cpc, new_commands, old_commands, oldIdx, errors>>
    /\ UNCHANGED <<oldBasic, newBasic, error_reply_coll>>
    /\ UNCHANGED codecVars
    /\ UNCHANGED extVars

\* lines 686-688: check_compatibility returned; if error_coll.errors.has_errors(): sys.exit(1)
MainCompatibilityChecked ==
    /\ mpc = "check_compatibility"
    /\ cpc = "done"
    /\ \E attribute \in AttributeOutcomes :
          IF attribute = "AttributeError" \/ has_errors(errors)
          THEN exit_status' = 1 /\ mpc' = "exited"
          ELSE exit_status' = exit_status /\ mpc' = "check_error_reply"
    /\ UNCHANGED <<oldTree, newTree, cpc, new_commands, old_commands, oldIdx, errors>>
    /\ UNCHANGED <<oldBasic, newBasic, error_reply_coll>>
    /\ UNCHANGED codecVars
    /\ UNCHANGED extVars

\* line 692: the call of check_error_reply
CheckErrorReply ==
    /\ mpc = "check_error_reply"
    /\ LET res == check_error_reply(oldBasic, newBasic)
       IN /\ error_reply_coll' = res.errs
          /\ IF res.exit THEN exit_status' = 1 /\ mpc' = "exited"
             ELSE exit_status' = exit_status /\ mpc' = "error_reply_checked"
    /\ UNCHANGED <<oldTree, newTree, cpc, new_commands, old_commands, oldIdx, errors>>
    /\ UNCHANGED <<oldBasic, newBasic>>
    /\ UNCHANGED codecVars
    /\ UNCHANGED extVars

\* lines 693-694: if error_reply_coll.has_errors(): sys.exit(1); else main returns
MainReturn ==
    /\ mpc = "error_reply_checked"
    /\ exit_status' = IF has_errors(error_reply_coll) THEN 1 ELSE 0
    /\ mpc' = "exited"
    /\ UNCHANGED <<oldTree, newTree, cpc, new_commands, old_commands, oldIdx, errors>>
    /\ UNCHANGED <<oldBasic, newBasic, error_reply_coll>>
    /\ UNCHANGED codecVars
    /\ UNCHANGED extVars

MainNext ==
    \/ GetNewCommands \/ CheckOldCommand \/ DumpErrors
    \/ MainAborted \/ MainCompatibilityChecked \/ CheckErrorReply \/ MainReturn

SpecMain == MainInit /\ [][MainNext]_vars

(***************************************************************************)
(* Properties of the compatibility checker.                                *)
(***************************************************************************)
HasError(kind, cmd, name) ==
    \E i \in DOMAIN errors :
        errors[i].kind = kind /\ errors[i].cmd = cmd /\ errors[i].name = name

ErrorCount(kind, cmd) ==
    Cardinality({i \in DOMAIN errors : errors[i].kind = kind /\ errors[i].cmd = cmd})

\* the definitions of a tree that are its files' own (not imported) version-"1" commands
OwnV1(tree, c) ==
    {i \in DOMAIN tree.commands :
        /\ tree.commands[i].command_name = c
        /\ tree.commands[i].api_version = "1"
        /\ ~tree.commands[i].imported}

Defined(tree, c) == \E i \in DOMAIN tree.commands : tree.commands[i].command_name = c

CommandNames == {"c", "d"}

\* a command both trees define as a version-"1" command: the pair the checker compares
ComparedNames == {c \in CommandNames : OwnV1(oldTree, c) # {} /\ OwnV1(newTree, c) # {}}

FirstOf(S) == CHOOSE i \in S : \A j \in S : i <= j
OldCmd(c) == oldTree.commands[FirstOf(OwnV1(oldTree, c))]
NewCmd(c) == newTree.commands[FirstOf(OwnV1(newTree, c))]

TypeOf(tree, tname) == IF tname \in DOMAIN Symbols(tree) THEN Symbols(tree)[tname] ELSE NoType

\* whether both versions of command c take a struct as the command type
BothTypeStructs(c) ==
    /\ OldCmd(c).namespace = "type" /\ TypeOf(oldTree, OldCmd(c).type).kind = "struct"
    /\ NewCmd(c).namespace = "type" /\ TypeOf(newTree, NewCmd(c).type).kind = "struct"

\* the fields of the command-type struct of one version, when both versions have one
TypeStructFields(tree, c, cmd) ==
    IF BothTypeStructs(c) THEN TypeOf(tree, cmd.type).fields ELSE <<>>

ReplyFields(tree, cmd) == TypeOf(tree, cmd.reply_type).fields

\* pairs <<old field, new field>> of the same name in two field lists
SameNamed(oldFields, newFields) ==
    { <<oldFields[i], newFields[j]>> : i \in DOMAIN oldFields, j \in DOMAIN newFields }
    \cap { pr \in Range(oldFields) \X Range(newFields) : pr[1].name = pr[2].name }

PlainNoAny(t) == t.kind = "type" /\ "any" \notin t.bson

\* the superset rule over two field lists of command c
SupersetRule(c, oldFields, newFields) ==
    \A pr \in SameNamed(oldFields, newFields) :
        LET ot == TypeOf(oldTree, pr[1].type)
            nt == TypeOf(newTree, pr[2].type)
        IN PlainNoAny(ot) /\ PlainNoAny(nt)
           => (HasError("command_or_param_type_not_superset", c, pr[1].name)
               <=> ~(ot.bson \subseteq nt.bson))

\* C1: for a parameter, or a field of the command-type struct, that both versions
\* define with plain (non-variant) types that do not contain "any", a
\* type-not-superset error is recorded exactly when the new type's wire types
\* are not a superset of the old type's.
C1_ParamTypeSuperset ==
    cpc = "done" =>
        \A c \in ComparedNames :
            /\ SupersetRule(c, OldCmd(c).fields, NewCmd(c).fields)
            /\ SupersetRule(c, TypeStructFields(oldTree, c, OldCmd(c)),
                               TypeStructFields(newTree, c, NewCmd(c)))

C1_Witness ==
    /\ cpc = "done"
    /\ "c" \in ComparedNames
    /\ \E pr \in SameNamed(OldCmd("c").fields, NewCmd("c").fields) :
          /\ pr[1].type = "strint" /\ pr[2].type = "string"
          /\ HasError("command_or_param_type_not_superset", "c", pr[1].name)

\* the subset rule over two reply field lists of command c
SubsetRule(c, oldFields, newFields, stableOnly) ==
    \A pr \in SameNamed(oldFields, newFields) :
        LET ot == TypeOf(oldTree, pr[1].type)
            nt == TypeOf(newTree, pr[2].type)
        IN PlainNoAny(ot) /\ PlainNoAny(nt) /\ (stableOnly => ~pr[1].unstable)
           => (HasError("reply_field_not_subset", c, pr[1].name)
               <=> ~(nt.bson \subseteq ot.bson))

\* C2 as stated: for every reply field that both versions define with plain types
\* without "any", a not-subset error is recorded exactly when the new type's wire
\* types are not a subset of the old type's.
C2_AsStated ==
    cpc = "done" =>
        \A c \in ComparedNames :
            SubsetRule(c, ReplyFields(oldTree, OldCmd(c)), ReplyFields(newTree, NewCmd(c)),
                       FALSE)

\* C2 (amended): the rule holds for the reply fields the old version does not mark
\* unstable; a reply field the old version marks unstable is not compared and
\* records no error at all.
C2_ReplyTypeSubset ==
    cpc = "done" =>
        \A c \in ComparedNames :
            /\ SubsetRule(c, ReplyFields(oldTree, OldCmd(c)),
                          ReplyFields(newTree, NewCmd(c)), TRUE)
            /\ \A i \in DOMAIN ReplyFields(oldTree, OldCmd(c)) :
                  LET f == ReplyFields(oldTree, OldCmd(c))[i]
                  IN f.unstable => \A k \in DOMAIN errors :
                                       ~(errors[k].cmd = c /\ errors[k].name = f.name)

C2_Witness ==
    /\ cpc = "done"
    /\ "c" \in ComparedNames
    /\ \E pr \in SameNamed(ReplyFields(oldTree, OldCmd("c")), ReplyFields(newTree, NewCmd("c"))) :
          /\ ~pr[1].unstable
          /\ pr[1].type = "string" /\ pr[2].type = "strint"
          /\ HasError("reply_field_not_subset", "c", pr[1].name)

Names(fields) == {fields[i].name : i \in DOMAIN fields}

\* the added-field rule over two field lists of command c
AddedRule(c, oldFields, newFields) ==
    \A j \in DOMAIN newFields :
        newFields[j].name \notin Names(oldFields)
        => (HasError("new_param_or_command_type_field_added_required", c, newFields[j].name)
            <=> (~newFields[j].optional /\ ~newFields[j].unstable))

\* C8: for every field of the new parameter struct (or command-type struct) whose
\* name the old struct does not have, an added-required error is recorded exactly
\* when the field is neither optional nor unstable.
C8_AddedParameter ==
    cpc = "done" =>
        \A c \in ComparedNames :
            /\ AddedRule(c, OldCmd(c).fields, NewCmd(c).fields)
            /\ AddedRule(c, TypeStructFields(oldTree, c, OldCmd(c)),
                            TypeStructFields(newTree, c, NewCmd(c)))

C8_Witness ==
    /\ cpc = "done"
    /\ "c" \in ComparedNames
    /\ \E j \in DOMAIN NewCmd("c").fields :
          /\ NewCmd("c").fields[j].name \notin Names(OldCmd("c").fields)
          /\ ~NewCmd("c").fields[j].optional /\ ~NewCmd("c").fields[j].unstable
          /\ HasError("new_param_or_command_type_field_added_required", "c",
                      NewCmd("c").fields[j].name)
    /\ \E j \in DOMAIN NewCmd("c").fields :
          /\ NewCmd("c").fields[j].name \notin Names(OldCmd("c").fields)
          /\ NewCmd("c").fields[j].unstable /\ ~NewCmd("c").fields[j].optional

\* the removed-field rule over two field lists of command c
RemovedRule(kind, c, oldFields, newFields) ==
    \A i \in DOMAIN oldFields :
        oldFields[i].name \notin Names(newFields)
        => (HasError(kind, c, oldFields[i].name) <=> ~oldFields[i].unstable)

\* C9: for every field of an old parameter struct, command-type struct or reply
\* struct that the new struct has no field named like, a field-missing error is
\* recorded exactly when the old field is not marked unstable.
C9_RemovedField ==
    cpc = "done" =>
        \A c \in ComparedNames :
            /\ RemovedRule("new_param_or_command_type_field_missing", c,
                           OldCmd(c).fields, NewCmd(c).fields)
            /\ RemovedRule("new_param_or_command_type_field_missing", c,
                           TypeStructFields(oldTree, c, OldCmd(c)),
                           TypeStructFields(newTree, c, NewCmd(c)))
            /\ RemovedRule("new_reply_field_missing", c,
                           ReplyFields(oldTree, OldCmd(c)), ReplyFields(newTree, NewCmd(c)))

C9_Witness ==
    /\ cpc = "done"
    /\ "c" \in ComparedNames
    /\ \E i \in DOMAIN OldCmd("c").fields :
          /\ OldCmd("c").fields[i].name \notin Names(NewCmd("c").fields)
          /\ ~OldCmd("c").fields[i].unstable
          /\ HasError("new_param_or_command_type_field_missing", "c",
                      OldCmd("c").fields[i].name)
    /\ \E i \in DOMAIN OldCmd("c").fields :
          /\ OldCmd("c").fields[i].name \notin Names(NewCmd("c").fields)
          /\ OldCmd("c").fields[i].unstable

\* the errors that only a comparison of two versions of a command adds
IsComparisonError(e) ==
    e.kind \notin {"command_removed", "duplicate_command_name", "command_invalid_api_version"}

\* an old version-"1" command that the new tree does not define is reported as
\* removed exactly once, and nothing of it is compared
RemovedCommandRule ==
    \A c \in CommandNames :
        OwnV1(oldTree, c) # {} /\ ~Defined(newTree, c)
        => /\ ErrorCount("command_removed", c) = 1
           /\ \A k \in DOMAIN errors : errors[k].cmd = c => ~IsComparisonError(errors[k])

\* C10 as stated: removed commands as above, and a command only the new tree
\* defines produces no error.
C10_AsStated ==
    cpc = "done" =>
        /\ RemovedCommandRule
        /\ \A c \in CommandNames :
              Defined(newTree, c) /\ ~Defined(oldTree, c)
              => \A k \in DOMAIN errors : errors[k].cmd # c

\* C10 (amended): removed commands as above; a command that only the new tree
\* defines, once and as a version-"1" command, produces no error.
C10_RemovedCommand ==
    cpc = "done" =>
        /\ RemovedCommandRule
        /\ \A c \in CommandNames :
              /\ ~Defined(oldTree, c)
              /\ Cardinality({i \in DOMAIN newTree.commands :
                                 newTree.commands[i].command_name = c}) = 1
              /\ OwnV1(newTree, c) # {}
              => \A k \in DOMAIN errors : errors[k].cmd # c

C10_Witness ==
    /\ cpc = "done"
    /\ Cardinality(OwnV1(oldTree, "c")) = 2 /\ ~Defined(newTree, "c")
    /\ ErrorCount("command_removed", "c") = 1
    /\ ~Defined(oldTree, "d") /\ OwnV1(newTree, "d") # {}

(***************************************************************************)
(* The code idl/generator.py emits for a struct, modelled by what the      *)
(* emitted C++ does when it runs.                                          *)
(*                                                                         *)
(* A member value is a boost::optional, a scalar or a std::vector; all     *)
(* three are kept in one shape: whether a value is there, and its items.   *)
(***************************************************************************)
NoValue == [set |-> FALSE, items |-> <<>>]
Scalar(v) == [set |-> TRUE, items |-> <<v>>]
Vector(s) == [set |-> TRUE, items |-> s]

\* an ast.Field as the generator reads it
AstField(name, optional, ignore, default, array, bson_serialization_type, chained, comparison_order, cpp_type) ==
    [name |-> name, optional |-> optional, ignore |-> ignore, default |-> default,
     array |-> array, bson_serialization_type |-> bson_serialization_type,
     chained |-> chained, comparison_order |-> comparison_order, cpp_type |-> cpp_type]

\* an ast.Struct (is_command: the struct is an ast.Command)
AstStruct(strict, is_command, fields) ==
    [strict |-> strict, is_command |-> is_command, fields |-> fields]

\* a BSON element of a document: its name, what ctxt.checkAndAssertType answers for
\* it ("true", "false" or "throw"), its scalar value and, for an array, its elements
Element(name, chk, val, arr) == [name |-> name, chk |-> chk, val |-> val, arr |-> arr]

\* an element of an array sub-document
ArrayElement(name, chk, val) == [name |-> name, chk |-> chk, val |-> val]

FieldNamesOf(st) == {st.fields[i].name : i \in DOMAIN st.fields}

\* an error thrown by the generated code
NoError == [code |-> "ok", name |-> ""]
Throw(code, name) == [code |-> code, name |-> name]

_is_required_serializer_field(field) ==
    ~field.ignore /\ ~field.optional /\ ~field.default.set /\ ~field.chained

\* whether _get_bson_type_check returns a predicate (None for 'any' and 'chain')
_get_bson_type_check(field) ==
    ~(Len(field.bson_serialization_type) = 1
      /\ field.bson_serialization_type[1] \in {"any", "chain"})

\* the object a generated constructor leaves: no has-flag set, optionals empty,
\* defaulted members at their default, the others value-initialised
FreshMember(field) ==
    IF field.optional THEN NoValue
    ELSE IF field.default.set THEN field.default
    ELSE IF field.array THEN Vector(<<>>)
    ELSE Scalar(0)

_gen_constructor(st) ==
    [val |-> [n \in FieldNamesOf(st) |->
                 FreshMember(CHOOSE f \in Range(st.fields) : f.name = n)],
     has |-> [n \in FieldNamesOf(st) |-> FALSE]]

(***************************************************************************)
(* The two field usage checkers.  usedFields is the std::set of the names  *)
(* seen (slow checker) or the bits set (fast checker, one bit per field).  *)
(***************************************************************************)
_get_field_usage_checker(st) == IF st.strict THEN "fast" ELSE "slow"

\* add_store("fieldName"), emitted once at the top of the element loop
add_store(checker, usedFields, fieldName) ==
    IF checker = "fast" THEN [dup |-> FALSE, used |-> usedFields]
    ELSE [dup |-> fieldName \in usedFields, used |-> usedFields \cup {fieldName}]

\* add(field, element), emitted where the field's element is handled
add(checker, usedFields, field) ==
    IF checker = "fast"
    THEN [dup |-> field.name \in usedFields, used |-> usedFields \cup {field.name}]
    ELSE [dup |-> FALSE, used |-> usedFields]

\* the parser's locals and the object it fills
ParserStart(st) ==
    [usedFields |-> {}, firstFieldFound |-> FALSE, object |-> _gen_constructor(st),
     err |-> NoError]

_gen_usage_check(checker, ps, field) ==
    LET u == add(checker, ps.usedFields, field)
    IN IF u.dup THEN [ps EXCEPT !.err = Throw("duplicate_field", field.name)]
       ELSE [ps EXCEPT !.usedFields = u.used,
                       !.object.has[field.name] =
                           IF _is_required_serializer_field(field) THEN TRUE ELSE @]

(***************************************************************************)
(* Array field names.  NumberParser reads a decimal string; the array      *)
(* builder writes the index of an item as one.                             *)
(***************************************************************************)
Digits == <<"0", "1", "2", "3", "4", "5", "6", "7", "8", "9">>

NumberParser(arrayFieldName) ==
    IF \E d \in DOMAIN Digits : Digits[d] = arrayFieldName
    THEN [isOK |-> TRUE,
          fieldNumber |-> (CHOOSE d \in DOMAIN Digits : Digits[d] = arrayFieldName) - 1]
    ELSE [isOK |-> FALSE, fieldNumber |-> 0]

ArrayFieldName(index) == Digits[index + 1]

RECURSIVE ArrayLoopUnsequenced(_, _, _, _)
\* the loop of _gen_array_deserializer without the test of the sequence
ArrayLoopUnsequenced(field, arrayObject, i, values) ==
    IF i > Len(arrayObject) THEN [err |-> NoError, values |-> values]
    ELSE LET arrayElement == arrayObject[i]
             status == NumberParser(arrayElement.name)
         IN IF ~status.isOK
            THEN [err |-> Throw("bad_array_field_number_value", arrayElement.name),
                  values |-> values]
            ELSE IF _get_bson_type_check(field) /\ arrayElement.chk = "throw"
            THEN [err |-> Throw("type_mismatch", arrayElement.name), values |-> values]
            ELSE IF _get_bson_type_check(field) /\ arrayElement.chk = "false"
            THEN ArrayLoopUnsequenced(field, arrayObject, i + 1, values)
            ELSE ArrayLoopUnsequenced(field, arrayObject, i + 1,
                                      Append(values, arrayElement.val))

RECURSIVE ArrayLoop(_, _, _, _)
\* the loop of _gen_array_deserializer from element i on; expectedFieldNumber is i - 1
ArrayLoop(field, arrayObject, i, values) ==
    IF i > Len(arrayObject) THEN [err |-> NoError, values |-> values]
    ELSE LET arrayElement == arrayObject[i]
             status == NumberParser(arrayElement.name)
             expectedFieldNumber == i - 1
         IN IF ~status.isOK
            THEN [err |-> Throw("bad_array_field_number_value", arrayElement.name),
                  values |-> values]
            ELSE IF status.fieldNumber # expectedFieldNumber
            THEN [err |-> Throw("bad_array_field_number_sequence", arrayElement.name),
                  values |-> values]
            ELSE IF _get_bson_type_check(field) /\ arrayElement.chk = "throw"
            THEN [err |-> Throw("type_mismatch", arrayElement.name), values |-> values]
            ELSE IF _get_bson_type_check(field) /\ arrayElement.chk = "false"
            THEN ArrayLoop(field, arrayObject, i + 1, values)
            ELSE ArrayLoop(field, arrayObject, i + 1, Append(values, arrayElement.val))

_gen_array_deserializer(ps, field, element) ==
    LET r == ArrayLoop(field, element.arr, 1, <<>>)
    IN IF r.err.code # "ok" THEN [ps EXCEPT !.err = r.err]
       ELSE [ps EXCEPT !.object.val[field.name] = Vector(r.values)]

\* the code emitted for one field inside the element loop
gen_field_deserializer(checker, ps, field, element) ==
    IF field.array
    THEN LET checked == _gen_usage_check(checker, ps, field)
         IN IF checked.err.code # "ok" THEN checked
            ELSE _gen_array_deserializer(checked, field, element)
    ELSE IF _get_bson_type_check(field) /\ element.chk = "throw"
    THEN [ps EXCEPT !.err = Throw("type_mismatch", field.name)]
    ELSE IF _get_bson_type_check(field) /\ element.chk = "false"
    THEN ps
    ELSE LET checked == _gen_usage_check(checker, ps, field)
         IN IF checked.err.code # "ok" THEN checked
            ELSE [checked EXCEPT !.object.val[field.name] = Scalar(element.val)]

\* the names mongo::isGenericArgument accepts
GenericArguments == {"$db"}

\* the fields the element loop dispatches on, in declaration order
Dispatched(st) == SelectSeq(st.fields, LAMBDA f : ~f.chained)

\* ElementStep of a generator that never emits the else block of lines 1405-1414
ElementStepNeverStrict(st, checker, ps, element) ==
    IF st.is_command /\ ~ps.firstFieldFound
    THEN [ps EXCEPT !.firstFieldFound = TRUE]
    ELSE LET stored == add_store(checker, ps.usedFields, element.name)
             seen == [ps EXCEPT !.usedFields = stored.used]
             known == SelectSeq(Dispatched(st), LAMBDA f : f.name = element.name)
         IN IF stored.dup THEN [ps EXCEPT !.err = Throw("duplicate_field", element.name)]
            ELSE IF known # <<>>
            THEN IF known[1].ignore
                 THEN LET u == add(checker, seen.usedFields, known[1])
                      IN IF u.dup
                         THEN [seen EXCEPT !.err = Throw("duplicate_field", element.name)]
                         ELSE [seen EXCEPT !.usedFields = u.used]
                 ELSE gen_field_deserializer(checker, seen, known[1], element)
            ELSE seen

\* the body of "for (const auto& element : bsonObject)" for one element
ElementStep(st, checker, ps, element) ==
    IF st.is_command /\ ~ps.firstFieldFound
    THEN [ps EXCEPT !.firstFieldFound = TRUE]
    ELSE LET stored == add_store(checker, ps.usedFields, element.name)
             seen == [ps EXCEPT !.usedFields = stored.used]
             known == SelectSeq(Dispatched(st), LAMBDA f : f.name = element.name)
         IN IF stored.dup THEN [ps EXCEPT !.err = Throw("duplicate_field", element.name)]
            ELSE IF known # <<>>
            THEN IF known[1].ignore
                 THEN LET u == add(checker, seen.usedFields, known[1])
                      IN IF u.dup
                         THEN [seen EXCEPT !.err = Throw("duplicate_field", element.name)]
                         ELSE [seen EXCEPT !.usedFields = u.used]
                 ELSE gen_field_deserializer(checker, seen, known[1], element)
            ELSE IF st.strict /\ ~(st.is_command /\ element.name \in GenericArguments)
            THEN [seen EXCEPT !.err = Throw("unknown_field", element.name)]
            ELSE seen

RECURSIVE ElementLoop(_, _, _, _, _)
ElementLoop(st, checker, ps, bsonObject, i) ==
    IF i > Len(bsonObject) \/ ps.err.code # "ok" THEN ps
    ELSE ElementLoop(st, checker, ElementStep(st, checker, ps, bsonObject[i]),
                     bsonObject, i + 1)

RECURSIVE ChainedLoop(_, _, _)
\* the chained types and structs, each parsed from the whole document after the loop
ChainedLoop(st, ps, i) ==
    IF i > Len(st.fields) THEN ps
    ELSE IF ~st.fields[i].chained THEN ChainedLoop(st, ps, i + 1)
    ELSE ChainedLoop(st, [ps EXCEPT !.object.val[st.fields[i].name] = Vector(<<>>)],
                     i + 1)

_gen_fields_deserializer_common(st, bsonObject) ==
    LET checker == _get_field_usage_checker(st)
        looped == ElementLoop(st, checker, ParserStart(st), bsonObject, 1)
    IN IF looped.err.code # "ok" THEN looped ELSE ChainedLoop(st, looped, 1)

\* a final check that takes no account of the field's default
FinalCheckWithoutDefault(ps, field) ==
    [ps EXCEPT !.err = Throw("missing_field", field.name)]

\* what a final check does for one field whose element was not recorded
FinalCheck(ps, field) ==
    IF field.default.set THEN [ps EXCEPT !.object.val[field.name] = field.default]
    ELSE [ps EXCEPT !.err = Throw("missing_field", field.name)]

RECURSIVE SlowFinalChecks(_, _, _)
\* _SlowFieldUsageChecker.add_final_checks over the fields it was told of
SlowFinalChecks(fields, ps, i) ==
    IF i > Len(fields) \/ ps.err.code # "ok" THEN ps
    ELSE LET field == fields[i]
         IN IF ~field.optional /\ ~field.ignore /\ ~field.chained
               /\ field.name \notin ps.usedFields
            THEN SlowFinalChecks(fields, FinalCheck(ps, field), i + 1)
            ELSE SlowFinalChecks(fields, ps, i + 1)

RECURSIVE FastFinalChecksFrom(_, _, _)
FastFinalChecksFrom(fields, ps, i) ==
    IF i > Len(fields) \/ ps.err.code # "ok" THEN ps
    ELSE LET field == fields[i]
         IN IF ~field.optional /\ ~field.ignore /\ field.name \notin ps.usedFields
            THEN FastFinalChecksFrom(fields, FinalCheck(ps, field), i + 1)
            ELSE FastFinalChecksFrom(fields, ps, i + 1)

\* _FastFieldUsageChecker.add_final_checks: the bitset has one bit per declared field,
\* chained ones included, and only the dispatched fields ever set theirs
FastFinalChecks(st, ps) ==
    IF Cardinality(ps.usedFields) = Len(st.fields) THEN ps
    ELSE FastFinalChecksFrom(Dispatched(st), ps, 1)

add_final_checks(st, ps) ==
    IF _get_field_usage_checker(st) = "fast" THEN FastFinalChecks(st, ps)
    ELSE SlowFinalChecks(Dispatched(st), ps, 1)

\* the generated parse method: what it throws, or the object it returns
gen_bson_deserializer_methods(st, bsonObject) ==
    LET looped == _gen_fields_deserializer_common(st, bsonObject)
        final == IF looped.err.code # "ok" THEN looped ELSE add_final_checks(st, looped)
    IN [err |-> final.err, object |-> final.object]

(***************************************************************************)
(* The generated serializer.                                               *)
(***************************************************************************)
\* the elements _gen_serializer_method_common writes for one member; a chained
\* struct writes its own fields, and the one drawn here declares none
_gen_serializer_method_common(field, member) ==
    IF field.optional /\ ~member.set THEN <<>>
    ELSE IF field.chained THEN <<>>
    ELSE IF field.array
    THEN << Element(field.name, "true", 0,
                    [i \in DOMAIN member.items |->
                        ArrayElement(ArrayFieldName(i - 1), "true", member.items[i])]) >>
    ELSE << Element(field.name, "true", member.items[1], <<>>) >>

\* the serializer's loop body with array fields left out as ignored ones are
SerializeFieldSkippingArrays(st, obj, i) ==
    IF st.fields[i].ignore \/ st.fields[i].array THEN <<>>
    ELSE _gen_serializer_method_common(st.fields[i], obj.val[st.fields[i].name])

\* what "for field in struct.fields" of the serializer writes for field i
SerializeField(st, obj, i) ==
    IF st.fields[i].ignore THEN <<>>
    ELSE _gen_serializer_method_common(st.fields[i], obj.val[st.fields[i].name])

RECURSIVE SerializeFrom(_, _, _)
SerializeFrom(st, obj, i) ==
    IF i > Len(st.fields) THEN <<>>
    ELSE SerializeField(st, obj, i) \o SerializeFrom(st, obj, i + 1)

\* the serialize method: invariant(_hasA && _hasB ...), then the fields in
\* declaration order
_gen_serializer_methods_common(st, obj) ==
    IF \E i \in DOMAIN st.fields :
          _is_required_serializer_field(st.fields[i]) /\ ~obj.has[st.fields[i].name]
    THEN [invariant |-> FALSE, builder |-> <<>>]
    ELSE [invariant |-> TRUE, builder |-> SerializeFrom(st, obj, 1)]

\* the generated setter of a field
gen_setter(obj, field, value) ==
    [obj EXCEPT !.val[field.name] = value,
                !.has[field.name] = IF _is_required_serializer_field(field) THEN TRUE ELSE @]

(***************************************************************************)
(* The generated comparison operators.                                     *)
(***************************************************************************)
RECURSIVE ItemsLess(_, _)
\* operator< of the stored values: integers, compared item by item
ItemsLess(a, b) ==
    IF b = <<>> THEN FALSE
    ELSE IF a = <<>> THEN TRUE
    ELSE IF Head(a) < Head(b) THEN TRUE
    ELSE IF Head(b) < Head(a) THEN FALSE
    ELSE ItemsLess(Tail(a), Tail(b))

\* operator< and operator== of a member: an empty optional is below every value
MemberLess(l, r) == r.set /\ (~l.set \/ ItemsLess(l.items, r.items))
MemberEqual(l, r) == l.set = r.set /\ l.items = r.items

\* "BSONObj" in field.cpp_type
IsBSONObj(cpp_type) == cpp_type \in {"mongo::BSONObj"}

\* the expression _get_comparison emits, evaluated on the two members
_get_comparison(field, rel_op, left, right) ==
    LET l == left.val[field.name]
        r == right.val[field.name]
        comp == IF rel_op = "==" THEN l.items = r.items ELSE ItemsLess(l.items, r.items)
    IN IF ~IsBSONObj(field.cpp_type)
       THEN IF rel_op = "==" THEN MemberEqual(l, r) ELSE MemberLess(l, r)
       ELSE IF ~field.optional THEN comp
       ELSE IF rel_op = "==" THEN (l.set = r.set) /\ (~l.set \/ comp)
       ELSE r.set /\ (~l.set \/ comp)

\* the expression _get_comparison emits for rel_op "!=".  For an optional BSONObj
\* member it reads right.get() whenever left holds a value and right does not;
\* undefined is what the comparison with that read answers
NotEqualComparison(field, left, right, undefined) ==
    LET l == left.val[field.name]
        r == right.val[field.name]
        comp == IF l.set /\ ~r.set THEN undefined ELSE l.items # r.items
    IN IF ~IsBSONObj(field.cpp_type) THEN ~MemberEqual(l, r)
       ELSE IF ~field.optional THEN comp
       ELSE (l.set # r.set) /\ (l.set /\ comp)

RECURSIVE LessIgnoringGreater(_, _, _, _)
\* _get_comparison_less without the test that the field is not greater
LessIgnoringGreater(fields, left, right, i) ==
    IF i = Len(fields) THEN _get_comparison(fields[i], "<", left, right)
    ELSE _get_comparison(fields[i], "<", left, right)
         \/ LessIgnoringGreater(fields, left, right, i + 1)

RECURSIVE _get_comparison_less(_, _, _, _)
\* the expression for fields[i..]; the caller never passes an empty list
_get_comparison_less(fields, left, right, i) ==
    IF i = Len(fields) THEN _get_comparison(fields[i], "<", left, right)
    ELSE _get_comparison(fields[i], "<", left, right)
         \/ (~_get_comparison(fields[i], "<", right, left)
             /\ _get_comparison_less(fields, left, right, i + 1))

\* sorted(...) is stable: a field goes after the fields whose key is not greater
InsertByOrder(sorted, field) ==
    LET k == Cardinality({j \in DOMAIN sorted :
                             sorted[j].comparison_order <= field.comparison_order})
    IN SubSeq(sorted, 1, k) \o <<field>> \o SubSeq(sorted, k + 1, Len(sorted))

RECURSIVE SortFrom(_, _, _)
SortFrom(fields, i, sorted) ==
    IF i > Len(fields) THEN sorted
    ELSE SortFrom(fields, i + 1, InsertByOrder(sorted, fields[i]))

sorted_fields(st) ==
    SortFrom(SelectSeq(st.fields, LAMBDA f : ~f.ignore /\ f.comparison_order # -1),
             1, <<>>)

operator_eq(st, left, right) ==
    \A i \in DOMAIN sorted_fields(st) :
        _get_comparison(sorted_fields(st)[i], "==", left, right)

\* ' || '.join(...) over the sorted fields
operator_ne(st, left, right, undefined) ==
    \E i \in DOMAIN sorted_fields(st) :
        NotEqualComparison(sorted_fields(st)[i], left, right, undefined)

operator_lt(st, left, right) == _get_comparison_less(sorted_fields(st), left, right, 1)

operator_gt(st, left, right) == operator_lt(st, right, left)

\* gen_comparison_operators_declarations: with no field to compare the generator
\* stops on fields[0]; otherwise the operators answer for the two objects
gen_comparison_operators_declarations(st, left, right) ==
    IF sorted_fields(st) = <<>>
    THEN [IndexError |-> TRUE, eq |-> FALSE, lt |-> FALSE, gt |-> FALSE,
          lt_swapped |-> FALSE]
    ELSE [IndexError |-> FALSE,
          eq |-> operator_eq(st, left, right),
          lt |-> operator_lt(st, left, right),
          gt |-> operator_gt(st, left, right),
          lt_swapped |-> operator_lt(st, right, left)]

(***************************************************************************)
(* The structs, documents and objects the generated code is run on.        *)
(***************************************************************************)
MaxDocLen == 3
MaxArrayLen == 3
MaxValue == 2

CodecFieldNames == {"a", "b"}
Int32 == "std::int32_t"

\* every kind of field under one name: required, optional, defaulted, ignored,
\* array, 'any'-typed and chained
FieldKinds(n, order) ==
    { AstField(n, FALSE, FALSE, NoValue, FALSE, <<"int">>, FALSE, order, Int32),
      AstField(n, TRUE, FALSE, NoValue, FALSE, <<"int">>, FALSE, order, Int32),
      AstField(n, FALSE, FALSE, Scalar(1), FALSE, <<"int">>, FALSE, order, Int32),
      AstField(n, FALSE, TRUE, NoValue, FALSE, <<"int">>, FALSE, order, Int32),
      AstField(n, FALSE, FALSE, NoValue, TRUE, <<"int">>, FALSE, order, Int32),
      AstField(n, FALSE, FALSE, NoValue, FALSE, <<"any">>, FALSE, order, Int32),
      AstField(n, FALSE, FALSE, NoValue, FALSE, <<"chain">>, TRUE, order, Int32) }

\* the field lists of a struct: no name twice, either declaration order
CodecFieldLists(fields) ==
    { s \in SeqsUpTo(fields, Cardinality(CodecFieldNames)) : DistinctNames(s) }

AllKinds == UNION { FieldKinds(n, 1) : n \in CodecFieldNames }

StructShapes ==
    { AstStruct(strict, FALSE, fs) : strict \in BOOLEAN, fs \in CodecFieldLists(AllKinds) }

CommandShapes ==
    { AstStruct(strict, TRUE, <<f>>) : strict \in BOOLEAN, f \in FieldKinds("a", 1) }

TypeChecks == {"true", "false", "throw"}

\* the values an array element of the input may hold
SmallArrays ==
    { <<>>, << ArrayElement("0", "true", 1) >>, << ArrayElement("1", "true", 1) >> }

\* the elements a document for st is built from: one per declared field and
\* type-check answer, an undeclared "x" and, for a command, a generic argument
ElementsFor(st) ==
    UNION { IF f.array THEN { Element(f.name, "true", 0, arr) : arr \in SmallArrays }
            ELSE { Element(f.name, chk, 1, <<>>) : chk \in TypeChecks } :
            f \in Range(st.fields) }
    \cup { Element("x", "true", 1, <<>>) }
    \cup (IF st.is_command THEN { Element(g, "true", 1, <<>>) : g \in GenericArguments }
          ELSE {})

\* the elements of an array sub-document: every key of the range and a non-numeric one
ArrayKeys == { ArrayFieldName(i) : i \in 0..(MaxArrayLen - 1) } \cup {"x"}

\* an 'any'-typed item has no type check, so its answer is left at "true"
ArrayElements(bson) ==
    { ArrayElement(k, "true", v) : k \in ArrayKeys, v \in 1..MaxValue }
    \cup (IF bson = <<"any">> THEN {}
          ELSE { ArrayElement(k, chk, 1) : k \in ArrayKeys, chk \in {"false", "throw"} })

ArrayStruct(bson) ==
    AstStruct(FALSE, FALSE,
              << AstField("a", FALSE, FALSE, NoValue, TRUE, bson, FALSE, 1, Int32) >>)

\* nothing was parsed or compared yet
NotParsed == [err |-> Throw("none", ""), object |-> <<>>]
NotCompared == [IndexError |-> FALSE, eq |-> FALSE, ne |-> FALSE, lt |-> FALSE, gt |-> FALSE,
                lt_swapped |-> FALSE]

CompatIdle ==
    /\ oldTree = <<>> /\ newTree = <<>> /\ cpc = "idle" /\ new_commands = <<>>
    /\ old_commands = <<>> /\ oldIdx = 0 /\ errors = <<>>
    /\ MainIdle

(***************************************************************************)
(* SpecDecode: a document is handed to the generated parser.               *)
(***************************************************************************)
DocumentScenario ==
    \E st \in StructShapes \cup CommandShapes :
        /\ struct = st
        /\ doc \in SeqsUpTo(ElementsFor(st), MaxDocLen)

ArrayScenario ==
    \E bson \in {<<"int">>, <<"any">>} :
        /\ struct = ArrayStruct(bson)
        /\ \E arr \in SeqsUpTo(ArrayElements(bson), MaxArrayLen) :
              doc = << Element("a", "true", 0, arr) >>

DecodeInit ==
    /\ (DocumentScenario \/ ArrayScenario)
    /\ object = _gen_constructor(struct)
    /\ other = _gen_constructor(struct)
    /\ parsed = NotParsed
    /\ cmp = NotCompared
    /\ gpc = "input"
    /\ CompatIdle
    /\ ExtIdle

\* a call of the generated parse method on doc
Parse ==
    /\ gpc \in {"input", "serialized"}
    /\ parsed' = gen_bson_deserializer_methods(struct, doc)
    /\ gpc' = "parsed"
    /\ UNCHANGED <<struct, doc, object, other, cmp>>
    /\ UNCHANGED compatVars
    /\ UNCHANGED extVars

SpecDecode == DecodeInit /\ [][Parse]_vars

(***************************************************************************)
(* SpecRoundTrip: an object is constructed, filled through its setters,    *)
(* serialized, and the document parsed back.                               *)
(***************************************************************************)
\* the values a setter may be handed for a field
ValuesFor(field) ==
    IF field.array THEN { Vector(s) : s \in SeqsUpTo(1..MaxValue, MaxArrayLen) }
    ELSE { Scalar(v) : v \in 1..MaxValue } \cup (IF field.optional THEN {NoValue} ELSE {})

RoundTripInit ==
    /\ struct \in StructShapes
    /\ doc = <<>>
    /\ object = _gen_constructor(struct)
    /\ other = _gen_constructor(struct)
    /\ parsed = NotParsed
    /\ cmp = NotCompared
    /\ gpc = "construct"
    /\ CompatIdle
    /\ ExtIdle

\* a call of a setter of object
SetField ==
    /\ gpc = "construct"
    /\ \E i \in DOMAIN struct.fields :
          /\ ~struct.fields[i].ignore /\ ~struct.fields[i].chained
          /\ \E value \in ValuesFor(struct.fields[i]) :
                object' = gen_setter(object, struct.fields[i], value)
    /\ UNCHANGED <<struct, doc, other, parsed, cmp, gpc>>
    /\ UNCHANGED compatVars
    /\ UNCHANGED extVars

\* a call of a setter of other
SetOther ==
    /\ gpc = "construct"
    /\ \E i \in DOMAIN struct.fields :
          /\ ~struct.fields[i].ignore /\ ~struct.fields[i].chained
          /\ \E value \in ValuesFor(struct.fields[i]) :
                other' = gen_setter(other, struct.fields[i], value)
    /\ UNCHANGED <<struct, doc, object, parsed, cmp, gpc>>
    /\ UNCHANGED compatVars
    /\ UNCHANGED extVars

\* a call of the generated serialize method on object
Serialize ==
    /\ gpc = "construct"
    /\ LET out == _gen_serializer_methods_common(struct, object)
       IN /\ doc' = out.builder
          /\ gpc' = IF out.invariant THEN "serialized" ELSE "aborted"
    /\ UNCHANGED <<struct, object, other, parsed, cmp>>
    /\ UNCHANGED compatVars
    /\ UNCHANGED extVars

RoundTripNext == SetField \/ Serialize \/ Parse

SpecRoundTrip == RoundTripInit /\ [][RoundTripNext]_vars

(***************************************************************************)
(* SpecCompare: two objects are filled and compared.                       *)
(***************************************************************************)
BSONObj == "mongo::BSONObj"

ComparedKinds(n) ==
    { AstField(n, optional, FALSE, NoValue, FALSE, <<"int">>, FALSE, order, cpp_type) :
          optional \in BOOLEAN, order \in {-1, 1, 2}, cpp_type \in {Int32, BSONObj} }
    \cup { AstField(n, FALSE, TRUE, NoValue, FALSE, <<"int">>, FALSE, order, Int32) :
               order \in {-1, 1, 2} }

CompareShapes ==
    { AstStruct(FALSE, FALSE, fs) :
          fs \in CodecFieldLists(UNION { ComparedKinds(n) : n \in CodecFieldNames }) }

CompareInit ==
    /\ struct \in CompareShapes
    /\ doc = <<>>
    /\ object = _gen_constructor(struct)
    /\ other = _gen_constructor(struct)
    /\ parsed = NotParsed
    /\ cmp = NotCompared
    /\ gpc = "construct"
    /\ CompatIdle
    /\ ExtIdle

\* the comparison operators applied to object and other
Compare ==
    /\ gpc = "construct"
    /\ \E undefined \in BOOLEAN :
          cmp' = ("ne" :> (sorted_fields(struct) # <<>>
                           /\ operator_ne(struct, object, other, undefined)))
                 @@ gen_comparison_operators_declarations(struct, object, other)
    /\ gpc' = "compared"
    /\ UNCHANGED <<struct, doc, object, other, parsed>>
    /\ UNCHANGED compatVars
    /\ UNCHANGED extVars

CompareNext == SetField \/ SetOther \/ Compare

SpecCompare == CompareInit /\ [][CompareNext]_vars

(***************************************************************************)
(* Properties of the generated code.                                       *)
(***************************************************************************)
\* the elements the element loop looks at: a command's first element is its name
BodyOf(st, d) == IF st.is_command /\ d # <<>> THEN Tail(d) ELSE d

NamesIn(d) == {d[i].name : i \in DOMAIN d}

Occurrences(d, n) == Cardinality({i \in DOMAIN d : d[i].name = n})

DispatchedNames(st) == {f.name : f \in Range(Dispatched(st))}

FieldNamed(st, n) == CHOOSE f \in Range(st.fields) : f.name = n

\* every key of the array is the decimal string of its position
KeysInSequence(arr) ==
    \A i \in DOMAIN arr :
        NumberParser(arr[i].name).isOK /\ NumberParser(arr[i].name).fieldNumber = i - 1

\* an element the parser has nothing to object to on its own
ElementFine(st, e) ==
    IF e.name \in DispatchedNames(st)
    THEN /\ e.chk = "true"
         /\ FieldNamed(st, e.name).array =>
                (KeysInSequence(e.arr) /\ \A i \in DOMAIN e.arr : e.arr[i].chk = "true")
    ELSE ~st.strict \/ (st.is_command /\ e.name \in GenericArguments)

\* all fields required (not optional), none chained, none ignored
AllRequired(st) ==
    /\ st.fields # <<>>
    /\ \A f \in Range(st.fields) : ~f.optional /\ ~f.chained /\ ~f.ignore

\* C3: round trip.  For a struct whose fields are all required, non-chained and
\* non-ignored and an object with every field set, the serializer writes one element
\* per field under the field's name, in declaration order, and parsing that document
\* succeeds and yields an object equal to the original under the generated operator==.
C3_RoundTrip ==
    (gpc = "parsed" /\ AllRequired(struct)) =>
        /\ [i \in DOMAIN doc |-> doc[i].name]
               = [i \in DOMAIN struct.fields |-> struct.fields[i].name]
        /\ parsed.err = NoError
        /\ operator_eq(struct, parsed.object, object)
        /\ operator_eq(struct, object, parsed.object)

C3_Witness ==
    /\ gpc = "parsed" /\ AllRequired(struct) /\ Len(struct.fields) = 2
    /\ struct.strict
    /\ \E f \in Range(struct.fields) : f.array /\ Len(object.val[f.name].items) = 2
    /\ \E f \in Range(struct.fields) : ~f.array /\ object.val[f.name] = Scalar(2)
    /\ parsed.err = NoError
    /\ parsed.object.val = object.val

\* C4: duplicate field.  A document in which a declared, non-chained field name occurs
\* twice, and in which no element fails its type check with an error, names an
\* undeclared field or carries a malformed array, makes the parser fail with a
\* duplicate-field error, for the set-based and for the bitset-based checker alike.
C4_DuplicateField ==
    (/\ gpc = "parsed"
     /\ \E n \in DispatchedNames(struct) : Occurrences(BodyOf(struct, doc), n) >= 2
     /\ \A e \in Range(BodyOf(struct, doc)) :
           /\ e.chk # "throw"
           /\ e.name \in DispatchedNames(struct)
           /\ KeysInSequence(e.arr))
    => parsed.err.code = "duplicate_field"

\* the fields a document must carry: dispatched, not optional, not ignored, no default
MustCarry(st) ==
    {f \in Range(Dispatched(st)) : ~f.optional /\ ~f.ignore /\ ~f.default.set}

Omitted(st, d) == {f \in MustCarry(st) : f.name \notin NamesIn(BodyOf(st, d))}

\* a document with nothing wrong but, possibly, fields it leaves out
ValidButForOmissions(st, d) ==
    /\ \A e \in Range(BodyOf(st, d)) :
          ElementFine(st, e) /\ Occurrences(BodyOf(st, d), e.name) = 1

\* C5: missing field.  A document that is valid except that it omits exactly one field
\* that is not optional, not ignored, not chained and has no default fails with a
\* missing-field error naming that field; with no such field omitted it succeeds, and
\* every omitted non-optional field that has a default holds its default.
C5_MissingField ==
    (gpc = "parsed" /\ ValidButForOmissions(struct, doc)) =>
        /\ \A f \in Omitted(struct, doc) :
              Omitted(struct, doc) = {f} => parsed.err = Throw("missing_field", f.name)
        /\ Omitted(struct, doc) = {} =>
              /\ parsed.err = NoError
              /\ \A f \in Range(Dispatched(struct)) :
                    (/\ ~f.optional /\ ~f.ignore /\ f.default.set
                     /\ f.name \notin NamesIn(BodyOf(struct, doc)))
                    => parsed.object.val[f.name] = f.default

C5_Witness ==
    /\ gpc = "parsed" /\ ValidButForOmissions(struct, doc)
    /\ Len(struct.fields) = 2 /\ Len(doc) = 1
    /\ Cardinality(MustCarry(struct)) = 2
    /\ \E f \in Omitted(struct, doc) :
          Omitted(struct, doc) = {f} /\ parsed.err = Throw("missing_field", f.name)

\* a struct of one array field, handed a document of that one array
ArrayCase ==
    /\ gpc = "parsed" /\ ~struct.is_command
    /\ Len(struct.fields) = 1 /\ struct.fields[1].array
    /\ Len(doc) = 1 /\ doc[1].name = struct.fields[1].name

\* the error the claim gives to the first element whose key is not its position
KeyError(arr) ==
    LET k == CHOOSE i \in DOMAIN arr :
                 /\ ~KeysInSequence(SubSeq(arr, 1, i))
                 /\ KeysInSequence(SubSeq(arr, 1, i - 1))
    IN IF NumberParser(arr[k].name).isOK THEN "bad_array_field_number_sequence"
       ELSE "bad_array_field_number_value"

\* C6 as stated: the array is accepted if and only if the key of its i-th element
\* parses as i, the values are yielded in document order, and the first element whose
\* key is not its position raises the sequence error (numeric key) or the value error.
C6_AsStated ==
    ArrayCase =>
        LET arr == doc[1].arr
        IN /\ (parsed.err = NoError) <=> KeysInSequence(arr)
           /\ parsed.err = NoError =>
                  parsed.object.val[doc[1].name] = Vector([i \in DOMAIN arr |-> arr[i].val])
           /\ ~KeysInSequence(arr) => parsed.err.code = KeyError(arr)

\* whether the element's type check lets the element through, drops it, or raises
Checked(field, e) == IF _get_bson_type_check(field) THEN e.chk ELSE "true"

\* the part of arr before its first element with a wrong key or a raising type check
Sound(field, arr) ==
    KeysInSequence(arr) /\ \A i \in DOMAIN arr : Checked(field, arr[i]) # "throw"

\* C6, amended: the array is accepted if and only if the key of its i-th element
\* parses as i and no element's type check raises; it then yields, in document order,
\* the values of the elements whose type check answered true (an element whose check
\* answered false is dropped, its position still counting).  Otherwise the first
\* offending element decides the error: sequence error for a numeric key that is not
\* its position, value error for a non-numeric key, type error for a raising check.
C6_ArraySequencing ==
    ArrayCase =>
        LET arr == doc[1].arr
            field == struct.fields[1]
            kept == SelectSeq(arr, LAMBDA e : Checked(field, e) = "true")
        IN /\ (parsed.err = NoError) <=> Sound(field, arr)
           /\ parsed.err = NoError =>
                  parsed.object.val[field.name] = Vector([i \in DOMAIN kept |-> kept[i].val])
           /\ ~Sound(field, arr) =>
                  LET k == CHOOSE i \in DOMAIN arr :
                               /\ ~Sound(field, SubSeq(arr, 1, i))
                               /\ Sound(field, SubSeq(arr, 1, i - 1))
                  IN parsed.err.code =
                         IF ~NumberParser(arr[k].name).isOK
                         THEN "bad_array_field_number_value"
                         ELSE IF NumberParser(arr[k].name).fieldNumber # k - 1
                         THEN "bad_array_field_number_sequence"
                         ELSE "type_mismatch"

C6_Witness ==
    /\ ArrayCase /\ Len(doc[1].arr) = 3
    /\ [i \in 1..3 |-> doc[1].arr[i].name] = <<"0", "1", "2">>
    /\ parsed.err = NoError
    /\ parsed.object.val[doc[1].name] = Vector(<<2, 1, 2>>)

\* the compared fields: not ignored, comparison_order other than -1
ComparedFields(st) == {i \in DOMAIN st.fields :
                          ~st.fields[i].ignore /\ st.fields[i].comparison_order # -1}

\* field i is compared before field j: smaller comparison_order, declaration order
\* among equals
ComparedBefore(st, i, j) ==
    \/ st.fields[i].comparison_order < st.fields[j].comparison_order
    \/ /\ st.fields[i].comparison_order = st.fields[j].comparison_order
       /\ i < j

Differ(st, l, r, i) == l.val[st.fields[i].name] # r.val[st.fields[i].name]

\* l is below r at the first compared field where the two differ
LexicographicLess(st, l, r) ==
    \E i \in ComparedFields(st) :
        /\ Differ(st, l, r, i)
        /\ \A j \in ComparedFields(st) : ComparedBefore(st, j, i) => ~Differ(st, l, r, j)
        /\ MemberLess(l.val[st.fields[i].name], r.val[st.fields[i].name])

\* C7: ordering.  The generated operator< is the lexicographic order over the
\* non-ignored fields with comparison_order # -1 in ascending comparison_order;
\* operator>(a, b) equals operator<(b, a); a < b and b < a are never both true.
C7_Ordering ==
    (gpc = "compared" /\ ~cmp.IndexError) =>
        /\ cmp.lt = LexicographicLess(struct, object, other)
        /\ cmp.lt_swapped = LexicographicLess(struct, other, object)
        /\ cmp.gt = cmp.lt_swapped
        /\ ~(cmp.lt /\ cmp.lt_swapped)

C7_Witness ==
    /\ gpc = "compared" /\ ~cmp.IndexError
    /\ Len(struct.fields) = 2
    /\ struct.fields[1].comparison_order = 2 /\ struct.fields[2].comparison_order = 1
    /\ MemberLess(other.val[struct.fields[1].name], object.val[struct.fields[1].name])
    /\ MemberLess(object.val[struct.fields[2].name], other.val[struct.fields[2].name])
    /\ cmp.lt /\ ~cmp.gt

(***************************************************************************)
(* Restrictiveness, "any", validators, variants and namespaces.            *)
(***************************************************************************)
\* every command name a tree defines
DefinedNames ==
    {oldTree.commands[i].command_name : i \in DOMAIN oldTree.commands}
    \cup {newTree.commands[i].command_name : i \in DOMAIN newTree.commands}

\* the commands the checker compares, whatever their names
ComparedCommands == {c \in DefinedNames : OwnV1(oldTree, c) # {} /\ OwnV1(newTree, c) # {}}

\* the restrictiveness rule over two parameter (or type-struct) field lists of c
RestrictivenessRule(c, oldFields, newFields) ==
    \A pr \in SameNamed(oldFields, newFields) :
        /\ HasError("new_param_or_command_type_field_required", c, pr[1].name)
              <=> (pr[1].optional /\ ~pr[2].optional)
        /\ HasError("new_param_or_command_type_field_unstable", c, pr[1].name)
              <=> (~pr[1].unstable /\ pr[2].unstable)
        /\ HasError("new_param_or_command_type_field_stable_required", c, pr[1].name)
              <=> (pr[1].unstable /\ ~pr[2].unstable /\ ~pr[2].optional)

\* C11: for a parameter, or a field of the command-type struct, that both versions
\* define, the optionality and stability errors are recorded exactly so: "required"
\* when an optional field is no longer optional, "unstable" when a stable field is
\* marked unstable, "stable required" when an unstable field becomes stable and not
\* optional.  A required field made optional, and an unstable field made stable
\* while optional, record none of the three.
C11_ParamRestrictiveness ==
    cpc = "done" =>
        \A c \in ComparedCommands :
            /\ RestrictivenessRule(c, OldCmd(c).fields, NewCmd(c).fields)
            /\ RestrictivenessRule(c, TypeStructFields(oldTree, c, OldCmd(c)),
                                      TypeStructFields(newTree, c, NewCmd(c)))

C11_Witness ==
    /\ cpc = "done"
    /\ "c" \in ComparedCommands
    /\ \E pr \in SameNamed(OldCmd("c").fields, NewCmd("c").fields) :
          /\ pr[1].unstable /\ ~pr[2].unstable /\ ~pr[2].optional /\ pr[1].optional
          /\ HasError("new_param_or_command_type_field_stable_required", "c", pr[1].name)
          /\ HasError("new_param_or_command_type_field_required", "c", pr[1].name)
          /\ ~HasError("new_param_or_command_type_field_unstable", "c", pr[1].name)

\* the same-named reply fields of command c that the old version does not mark unstable
StableReplyPairs(c) ==
    { pr \in SameNamed(ReplyFields(oldTree, OldCmd(c)), ReplyFields(newTree, NewCmd(c))) :
          ~pr[1].unstable }

\* whether any error at all names the field of command c
FieldHasError(c, name) == \E i \in DOMAIN errors : errors[i].cmd = c /\ errors[i].name = name

\* C12 as stated: for a reply field both versions define, an error is recorded when
\* the field changes from optional to required or is newly marked unstable, and no
\* optionality error is recorded when it changes from required to optional.
C12_AsStated ==
    cpc = "done" =>
        \A c \in ComparedCommands : \A pr \in StableReplyPairs(c) :
            /\ (pr[1].optional /\ ~pr[2].optional) => FieldHasError(c, pr[1].name)
            /\ pr[2].unstable => FieldHasError(c, pr[1].name)
            /\ (~pr[1].optional /\ pr[2].optional)
                  => ~HasError("new_reply_field_optional", c, pr[1].name)

\* C12 (amended): for a reply field both versions define and the old version does
\* not mark unstable, the optionality error is recorded exactly when the field
\* changes from required to optional (never when it changes from optional to
\* required), and the stability error exactly when the new field is unstable.
C12_ReplyRestrictiveness ==
    cpc = "done" =>
        \A c \in ComparedCommands : \A pr \in StableReplyPairs(c) :
            /\ HasError("new_reply_field_optional", c, pr[1].name)
                  <=> (~pr[1].optional /\ pr[2].optional)
            /\ HasError("new_reply_field_unstable", c, pr[1].name) <=> pr[2].unstable

C12_Witness ==
    /\ cpc = "done"
    /\ "c" \in ComparedCommands
    /\ \E pr \in StableReplyPairs("c") :
          /\ ~pr[1].optional /\ pr[2].optional /\ pr[2].unstable
          /\ HasError("new_reply_field_optional", "c", pr[1].name)
          /\ HasError("new_reply_field_unstable", "c", pr[1].name)

\* the kinds of error the type checks of a parameter or command type can add
ParamTypeKinds ==
    { "command_or_param_type_invalid", "new_command_or_param_type_enum_or_struct",
      "old_command_or_param_type_bson_any", "new_command_or_param_type_bson_any",
      "command_or_param_type_bson_any_not_allowed", "command_or_param_cpp_type_not_equal",
      "new_command_or_param_type_not_variant_type",
      "new_command_or_param_variant_type_not_superset",
      "command_or_param_type_not_superset", "new_command_or_param_type_not_enum",
      "new_command_or_param_type_not_struct" }

\* the kinds of error the type checks of a reply field can add
ReplyTypeKinds ==
    { "reply_field_type_invalid", "new_reply_field_type_enum_or_struct",
      "old_reply_field_bson_any", "new_reply_field_bson_any",
      "reply_field_bson_any_not_allowed", "reply_field_cpp_type_not_equal",
      "new_reply_field_variant_type_not_subset", "new_reply_field_variant_type",
      "reply_field_not_subset", "new_reply_field_type_not_enum",
      "new_reply_field_type_not_struct" }

TypeError(kinds, c, name) ==
    \E i \in DOMAIN errors :
        errors[i].cmd = c /\ errors[i].name = name /\ errors[i].kind \in kinds

\* the allow-list read as (command, parameter) pairs, (command, reply field) pairs
\* and bare commands
ListedParams ==
    { <<"commandAllowedAnyTypes", "anyTypeParam">>,
      <<"oldParamTypeBsonAnyAllowList", "bsonTypeAnyParam">>,
      <<"newParamTypeBsonAnyAllowList", "bsonTypeAnyParam">>,
      <<"commandParameterCppTypeNotEqual", "cppTypeNotEqualParam">> }

ListedReplyFields ==
    { <<"commandAllowedAnyTypes", "anyTypeField">>,
      <<"oldReplyFieldTypeBsonAnyAllowList", "oldBsonSerializationTypeAnyReplyField">>,
      <<"newReplyFieldTypeBsonAnyAllowList", "newBsonSerializationTypeAnyReplyField">>,
      <<"commandAllowedAnyTypesWithVariant", "anyTypeField">>,
      <<"replyFieldTypeBsonAnyWithVariant", "bsonSerializationTypeAnyReplyField">>,
      <<"replyFieldCppTypeNotEqual", "cppTypeNotEqualReplyField">> }

ListedCommands ==
    { "commandAllowedAnyTypes", "oldTypeBsonAnyAllowList", "newTypeBsonAnyAllowList",
      "commandCppTypeNotEqual" }

HasAny(t) == "any" \in t.bson

\* the "any" rule for one old and one new resolved Type
AnyRule(kinds, c, name, ot, nt, listed) ==
    (IsType(ot) /\ IsType(nt)) =>
        /\ (HasAny(ot) # HasAny(nt)) => TypeError(kinds, c, name)
        /\ (HasAny(ot) /\ HasAny(nt))
              => (TypeError(kinds, c, name) <=> (~listed \/ ot.cpp # nt.cpp))

\* the "any" rule over the parameters and the command type of c
ParamAnyRule(c) ==
    /\ \A pr \in SameNamed(OldCmd(c).fields, NewCmd(c).fields) :
          AnyRule(ParamTypeKinds, c, pr[1].name, TypeOf(oldTree, pr[1].type),
                  TypeOf(newTree, pr[2].type), <<c, pr[1].name>> \in ListedParams)
    /\ (OldCmd(c).namespace = "type" /\ NewCmd(c).namespace = "type")
          => AnyRule(ParamTypeKinds, c, "", TypeOf(oldTree, OldCmd(c).type),
                     TypeOf(newTree, NewCmd(c).type), c \in ListedCommands)

ReplyAnyRule(c, pairs) ==
    \A pr \in pairs :
        AnyRule(ReplyTypeKinds, c, pr[1].name, TypeOf(oldTree, pr[1].type),
                TypeOf(newTree, pr[2].type), <<c, pr[1].name>> \in ListedReplyFields)

\* C13 as stated: for every parameter, command type and reply field whose old and
\* new types are Types, a type error is recorded when exactly one of the two
\* contains "any"; when both do, one is recorded exactly when the key is not on the
\* allow-list or the two cpp_types differ.
C13_AsStated ==
    cpc = "done" =>
        \A c \in ComparedCommands :
            /\ ParamAnyRule(c)
            /\ ReplyAnyRule(c, SameNamed(ReplyFields(oldTree, OldCmd(c)),
                                         ReplyFields(newTree, NewCmd(c))))

\* C13 (amended): the rule holds for every parameter and command type, and for the
\* reply fields the old version does not mark unstable.
C13_AnyType ==
    cpc = "done" =>
        \A c \in ComparedCommands : ParamAnyRule(c) /\ ReplyAnyRule(c, StableReplyPairs(c))

C13_Witness ==
    /\ cpc = "done"
    /\ AllowedCommand \in ComparedCommands
    /\ \E pr \in SameNamed(OldCmd(AllowedCommand).fields, NewCmd(AllowedCommand).fields) :
          /\ pr[1].name = AllowedParam /\ pr[1].type = "anyA" /\ pr[2].type = "anyA"
          /\ ~TypeError(ParamTypeKinds, AllowedCommand, AllowedParam)
    /\ \E pr \in StableReplyPairs(AllowedCommand) :
          /\ pr[1].name = AllowedReplyField /\ pr[1].type = "anyA" /\ pr[2].type = "anyB"
          /\ HasError("reply_field_cpp_type_not_equal", AllowedCommand, AllowedReplyField)

\* whether a validator error names the field of command c
ValidatorError(kinds, c, name) ==
    \E i \in DOMAIN errors :
        errors[i].cmd = c /\ errors[i].name = name /\ errors[i].kind \in kinds

ParamValidatorKinds ==
    {"command_or_param_type_validators_not_equal", "command_or_param_type_contains_validator"}

ReplyValidatorKinds ==
    {"reply_field_validators_not_equal", "reply_field_contains_validator"}

\* the validator rule over same-named pairs of fields
ValidatorRule(kinds, c, pairs) ==
    \A pr \in pairs :
        ValidatorError(kinds, c, pr[1].name)
            <=> /\ pr[2].validator # "none"
                /\ (pr[1].validator = "none" \/ pr[1].validator # pr[2].validator)

\* C14 as stated: for every parameter and reply field both versions define, a
\* validator error is recorded exactly when the new field has a validator and the
\* old field has none or a different one.
C14_AsStated ==
    cpc = "done" =>
        \A c \in ComparedCommands :
            /\ ValidatorRule(ParamValidatorKinds, c,
                             SameNamed(OldCmd(c).fields, NewCmd(c).fields))
            /\ ValidatorRule(ReplyValidatorKinds, c,
                             SameNamed(ReplyFields(oldTree, OldCmd(c)),
                                       ReplyFields(newTree, NewCmd(c))))

\* C14 (amended): the rule holds for every parameter, and for the reply fields the
\* old version does not mark unstable.
C14_Validators ==
    cpc = "done" =>
        \A c \in ComparedCommands :
            /\ ValidatorRule(ParamValidatorKinds, c,
                             SameNamed(OldCmd(c).fields, NewCmd(c).fields))
            /\ ValidatorRule(ReplyValidatorKinds, c, StableReplyPairs(c))

C14_Witness ==
    /\ cpc = "done"
    /\ "c" \in ComparedCommands
    /\ \E pr \in SameNamed(OldCmd("c").fields, NewCmd("c").fields) :
          /\ pr[1].validator = "none" /\ pr[2].validator = "v1"
          /\ HasError("command_or_param_type_contains_validator", "c", pr[1].name)

ErrorCountNamed(kind, c, name) ==
    Cardinality({i \in DOMAIN errors :
                    errors[i].kind = kind /\ errors[i].cmd = c /\ errors[i].name = name})

\* the old alternatives without a same-named new alternative
LostAlternatives(ot, nt) ==
    {i \in DOMAIN ot.alts : \A j \in DOMAIN nt.alts : nt.alts[j].name # ot.alts[i].name}

\* the old alternatives whose same-named new alternative accepts less
NarrowedAlternatives(ot, nt) ==
    {i \in DOMAIN ot.alts :
        \E j \in DOMAIN nt.alts : /\ nt.alts[j].name = ot.alts[i].name
                                  /\ ~(ot.alts[i].bson \subseteq nt.alts[j].bson)}

\* the parameter struct-field rules over the two struct alternatives
StructAlternativesRule(c, os, ns) ==
    /\ SupersetRule(c, os.fields, ns.fields)
    /\ RestrictivenessRule(c, os.fields, ns.fields)
    /\ AddedRule(c, os.fields, ns.fields)
    /\ RemovedRule("new_param_or_command_type_field_missing", c, os.fields, ns.fields)

\* the variant rule for one parameter or command type
VariantRule(c, name, ot, nt) ==
    (IsVariant(ot) /\ ~IsNone(nt)) =>
        IF ~IsVariant(nt)
        THEN TypeError(ParamTypeKinds, c, name)
        ELSE /\ ErrorCountNamed("new_command_or_param_variant_type_not_superset", c, name)
                  = Cardinality(LostAlternatives(ot, nt))
                    + (IF ot.vstruct # <<>> /\ nt.vstruct = <<>> THEN 1 ELSE 0)
             /\ ErrorCountNamed("command_or_param_type_not_superset", c, name)
                  = Cardinality(NarrowedAlternatives(ot, nt))
             /\ (ot.vstruct # <<>> /\ nt.vstruct # <<>>)
                   => StructAlternativesRule(c, ot.vstruct[1], nt.vstruct[1])

\* C15: for a parameter or command type whose old type is a variant, an error is
\* recorded when the new type is not a variant; otherwise there is one
\* variant-not-superset error for every old alternative without a same-named new
\* one, plus one when the old variant has a struct alternative and the new one has
\* none; every same-named pair of alternatives is checked by the superset rule; and
\* two struct alternatives are diffed by the parameter struct-field rules.
C15_VariantParameters ==
    cpc = "done" =>
        \A c \in ComparedCommands :
            /\ \A pr \in SameNamed(OldCmd(c).fields, NewCmd(c).fields) :
                  VariantRule(c, pr[1].name, TypeOf(oldTree, pr[1].type),
                              TypeOf(newTree, pr[2].type))
            /\ (OldCmd(c).namespace = "type" /\ NewCmd(c).namespace = "type")
                  => VariantRule(c, "", TypeOf(oldTree, OldCmd(c).type),
                                 TypeOf(newTree, NewCmd(c).type))

C15_Witness ==
    /\ cpc = "done"
    /\ "c" \in ComparedCommands
    /\ \E pr \in SameNamed(OldCmd("c").fields, NewCmd("c").fields) :
          /\ pr[1].type = "varIst" /\ pr[2].type = "varSst"
          /\ ErrorCountNamed("new_command_or_param_variant_type_not_superset", "c",
                             pr[1].name) = 1
          /\ HasError("command_or_param_type_not_superset", "c", "f")
          /\ HasError("new_param_or_command_type_field_missing", "c", "g")

\* when the namespaces of the two versions of a command do not go together
NamespaceIncompatible(old_namespace, new_namespace, old_type_name) ==
    \/ old_namespace = "ignored" /\ new_namespace # "ignored"
    \/ /\ old_namespace = "concatenate_with_db_or_uuid"
       /\ new_namespace \notin {"ignored", "concatenate_with_db_or_uuid"}
    \/ old_namespace = "concatenate_with_db" /\ new_namespace = "type"
    \/ /\ old_namespace = "type" /\ new_namespace # "type"
       /\ old_type_name # "namespacestring" /\ new_namespace # "ignored"

\* C16: a namespace-incompatible error is recorded exactly when the old namespace
\* is "ignored" and the new one is not, or the old one is
\* "concatenate_with_db_or_uuid" and the new one is neither that nor "ignored", or
\* the old one is "concatenate_with_db" and the new one "type", or the old one is
\* "type", the new one neither "type" nor "ignored", and the old command type is
\* not named "namespacestring".  When both are "type" no namespace error is
\* recorded and the two command types obey the parameter type rule.
C16_Namespace ==
    cpc = "done" =>
        \A c \in ComparedCommands :
            LET ot == TypeOf(oldTree, OldCmd(c).type)
                nt == TypeOf(newTree, NewCmd(c).type)
            IN /\ ErrorCountNamed("new_namespace_incompatible", c, "")
                    = IF NamespaceIncompatible(OldCmd(c).namespace, NewCmd(c).namespace,
                                               ot.name)
                      THEN 1 ELSE 0
               /\ (OldCmd(c).namespace = "type" /\ NewCmd(c).namespace = "type"
                   /\ PlainNoAny(ot) /\ PlainNoAny(nt))
                     => (HasError("command_or_param_type_not_superset", c, "")
                         <=> ~(ot.bson \subseteq nt.bson))
               /\ ~(OldCmd(c).namespace = "type" /\ NewCmd(c).namespace = "type")
                     => ~TypeError(ParamTypeKinds, c, "")

C16_Witness ==
    /\ cpc = "done"
    /\ "c" \in ComparedCommands
    /\ OldCmd("c").namespace = "type" /\ OldCmd("c").type = "namespacestring"
    /\ NewCmd("c").namespace = "concatenate_with_db"
    /\ errors = <<>>

(***************************************************************************)
(* Unknown fields.                                                         *)
(***************************************************************************)
\* the positions of the elements the parser reads as fields (a command's first
\* element is the command itself)
BodyIndices(st, d) == IF st.is_command THEN 2..Len(d) ELSE 1..Len(d)

\* whether the element at position i bears a name the struct does not declare,
\* the generic arguments of a command set aside
Undeclared(st, d, i) ==
    /\ i \in BodyIndices(st, d)
    /\ d[i].name \notin FieldNamesOf(st)
    /\ ~(st.is_command /\ d[i].name \in GenericArguments)

\* whether the elements before position i parse without an error
PrefixFine(st, d, i) ==
    _gen_fields_deserializer_common(st, SubSeq(d, 1, i - 1)).err.code = "ok"

\* the document without its undeclared elements
RECURSIVE WithoutUndeclaredFrom(_, _, _)
WithoutUndeclaredFrom(st, d, i) ==
    IF i > Len(d) THEN <<>>
    ELSE (IF Undeclared(st, d, i) THEN <<>> ELSE <<d[i]>>)
         \o WithoutUndeclaredFrom(st, d, i + 1)

WithoutUndeclared(st, d) == WithoutUndeclaredFrom(st, d, 1)

\* the strict half: the first undeclared element of a strict struct's document is
\* rejected by name, and only strict structs raise the unknown-field error
StrictRejects ==
    /\ struct.strict =>
          \A i \in DOMAIN doc :
              (Undeclared(struct, doc, i) /\ PrefixFine(struct, doc, i))
                  => parsed.err = Throw("unknown_field", doc[i].name)
    /\ parsed.err.code = "unknown_field" => struct.strict

\* whether an undeclared name comes twice among the elements read as fields
UndeclaredTwice(st, d) ==
    \E i, j \in DOMAIN d : i < j /\ Undeclared(st, d, i) /\ Undeclared(st, d, j)
                           /\ d[i].name = d[j].name

\* C17 as stated: a strict struct's decoder rejects an undeclared element with an
\* unknown-field error (a strict command's generic arguments set aside), and a
\* non-strict struct's decoder skips every undeclared element: it decodes the
\* document as it decodes the document without them.
C17_AsStated ==
    gpc = "parsed" =>
        /\ StrictRejects
        /\ ~struct.strict
              => parsed = gen_bson_deserializer_methods(struct, WithoutUndeclared(struct, doc))

\* C17 (amended): as stated, except that a non-strict struct's decoder skips the
\* undeclared elements only as long as no undeclared name comes twice; the second
\* element of an undeclared name is rejected with a duplicate-field error.
C17_UnknownFields ==
    gpc = "parsed" =>
        /\ StrictRejects
        /\ (~struct.strict /\ ~UndeclaredTwice(struct, doc))
              => parsed = gen_bson_deserializer_methods(struct, WithoutUndeclared(struct, doc))
        /\ ~struct.strict =>
              \A i, j \in DOMAIN doc :
                  (/\ i < j /\ Undeclared(struct, doc, i) /\ Undeclared(struct, doc, j)
                   /\ doc[i].name = doc[j].name /\ PrefixFine(struct, doc, j))
                      => parsed.err = Throw("duplicate_field", doc[j].name)

C17_Witness ==
    /\ gpc = "parsed"
    /\ struct.strict /\ struct.is_command
    /\ Len(doc) = 3
    /\ doc[2].name \in GenericArguments
    /\ Undeclared(struct, doc, 3)
    /\ parsed.err = Throw("unknown_field", doc[3].name)

(***************************************************************************)
(* Unresolved types and API versions.                                      *)
(***************************************************************************)
Unresolved(tree, tname) == IsNone(TypeOf(tree, tname))

\* whether a command-level type of a compared command fails to resolve
CommandTypeUnresolved ==
    \E c \in ComparedCommands :
        \/ OldCmd(c).namespace = "type" /\ Unresolved(oldTree, OldCmd(c).type)
        \/ /\ OldCmd(c).namespace = "type" /\ NewCmd(c).namespace = "type"
           /\ Unresolved(newTree, NewCmd(c).type)

\* a type-invalid error for every same-named pair one of whose types fails to resolve
InvalidReported(kind, c, pairs) ==
    \A pr \in pairs :
        (Unresolved(oldTree, pr[1].type) \/ Unresolved(newTree, pr[2].type))
            => HasError(kind, c, pr[1].name)

\* the old version-"1" commands the new tree lacks are reported as removed
RemovedCommandsReported ==
    \A i \in DOMAIN oldTree.commands :
        LET cmd == oldTree.commands[i]
        IN (cmd.api_version = "1" /\ ~cmd.imported /\ ~Defined(newTree, cmd.command_name))
               => HasError("command_removed", cmd.command_name, "")

\* C19: once the pass is over, every parameter or reply field whose type does not
\* resolve has its type-invalid error, its sibling fields and the remaining
\* commands were checked all the same (what they lost is reported), and only an
\* unresolved command-level type has ended the pass early.
C19_UnresolvedFieldType ==
    (cpc \in {"done", "exit"} /\ ~CommandTypeUnresolved) =>
        /\ cpc = "done"
        /\ RemovedCommandsReported
        /\ \A c \in ComparedCommands :
              /\ InvalidReported("command_or_param_type_invalid", c,
                                 SameNamed(OldCmd(c).fields, NewCmd(c).fields))
              /\ InvalidReported("reply_field_type_invalid", c, StableReplyPairs(c))
              /\ RemovedRule("new_param_or_command_type_field_missing", c,
                             OldCmd(c).fields, NewCmd(c).fields)
              /\ RemovedRule("new_reply_field_missing", c,
                             ReplyFields(oldTree, OldCmd(c)), ReplyFields(newTree, NewCmd(c)))

\* the errors recorded against the file of one command definition
ErrorsAt(path) == {i \in DOMAIN errors : errors[i].path = path}

\* what the pass records against a definition it must not compare
VersionRule(cmd) ==
    /\ (cmd.api_version = "" \/ cmd.imported) => ErrorsAt(cmd.path) = {}
    /\ (~cmd.imported /\ cmd.api_version \notin {"", "1"}) =>
          /\ Cardinality(ErrorsAt(cmd.path)) = 1
          /\ \A i \in ErrorsAt(cmd.path) :
                /\ errors[i].kind = "command_invalid_api_version"
                /\ errors[i].cmd = cmd.command_name

\* C20: a non-imported command whose api_version is neither empty nor "1" records
\* one invalid-api-version error and nothing else, and is not put into the command
\* map; a command with an empty api_version, or an imported one, records nothing
\* and is not put into the map either.
C20_ApiVersion ==
    cpc = "done" =>
        /\ \A i \in DOMAIN oldTree.commands : VersionRule(oldTree.commands[i])
        /\ \A i \in DOMAIN newTree.commands : VersionRule(newTree.commands[i])
        /\ \A n \in DOMAIN new_commands :
              new_commands[n].api_version = "1" /\ ~new_commands[n].imported
        /\ \A n \in DOMAIN old_commands : OwnV1(oldTree, n) # {}

C20_Witness ==
    /\ cpc = "done"
    /\ Len(oldTree.commands) = 2
    /\ oldTree.commands[1].api_version = "2"
    /\ oldTree.commands[2].imported
    /\ "c" \in DOMAIN new_commands
    /\ old_commands = <<>>
    /\ Len(errors) = 1
    /\ errors[1].kind = "command_invalid_api_version"

(***************************************************************************)
(* The exit status.                                                        *)
(***************************************************************************)
\* C18: when main has ended, the status is 1 if check_compatibility recorded an
\* error, and also if it recorded none and check_error_reply recorded one; the
\* status is 0 only if neither pass recorded an error, which takes an ErrorReply
\* struct in both basic_types files.
C18_ExitStatus ==
    mpc = "exited" =>
        /\ exit_status \in {0, 1}
        /\ errors # <<>> => exit_status = 1
        /\ (errors = <<>> /\ error_reply_coll # <<>>) => exit_status = 1
        /\ exit_status = 0 =>
              /\ errors = <<>> /\ error_reply_coll = <<>>
              /\ oldBasic.has /\ newBasic.has
              /\ check_error_reply(oldBasic, newBasic).errs = <<>>

C18_Witness ==
    /\ mpc = "exited"
    /\ errors = <<>>
    /\ oldBasic.has /\ ~newBasic.has
    /\ Len(error_reply_coll) = 1
    /\ error_reply_coll[1].kind = "missing_error_reply"
    /\ error_reply_coll[1].path = NewBasicPath
    /\ exit_status = 1

(***************************************************************************)
(* Duplicate command names.                                                *)
(***************************************************************************)
\* the definitions of c in a tree that come after the first one scanned
LaterDefinitions(tree, c) ==
    IF OwnV1(tree, c) = {} THEN {} ELSE OwnV1(tree, c) \ {FirstOf(OwnV1(tree, c))}

\* a later definition has one error against its file, the duplicate-name error
DuplicateReported(tree, c) ==
    \A i \in LaterDefinitions(tree, c) :
        /\ Cardinality(ErrorsAt(tree.commands[i].path)) = 1
        /\ \A k \in ErrorsAt(tree.commands[i].path) :
              errors[k].kind = "duplicate_command_name" /\ errors[k].cmd = c

\* C21: when a tree defines a non-imported version-"1" command name more than
\* once, each definition after the first records one duplicate-command-name error
\* and nothing else, the command map of that tree holds the first definition with
\* its path, and the errors of a comparison are those of the two first definitions.
C21_DuplicateCommandNames ==
    /\ (cpc # "get_new_commands" =>
          \A c \in CommandNames :
              (OwnV1(newTree, c) # {}) =>
                  (c \in DOMAIN new_commands /\ new_commands[c] = NewCmd(c)))
    /\ (\A c \in DOMAIN old_commands : old_commands[c] = OldCmd(c))
    /\ (cpc = "done" =>
          \A c \in CommandNames :
              /\ DuplicateReported(newTree, c)
              /\ DuplicateReported(oldTree, c)
              /\ ((OwnV1(oldTree, c) # {}) => (c \in DOMAIN old_commands))
              /\ \A k \in DOMAIN errors :
                    (errors[k].cmd = c /\ IsComparisonError(errors[k]))
                    => (/\ c \in ComparedNames
                        /\ errors[k].path \in {OldCmd(c).path, NewCmd(c).path}))

\* three definitions on each side; the first pair differs (p removed) and is reported
C21_Witness ==
    /\ cpc = "done"
    /\ Cardinality(OwnV1(oldTree, "c")) = 3 /\ Cardinality(OwnV1(newTree, "c")) = 3
    /\ old_commands["c"].path = <<"old", 1>> /\ new_commands["c"].path = <<"new", 1>>
    /\ ErrorCount("duplicate_command_name", "c") = 4
    /\ Len(OldCmd("c").fields) = 1 /\ Len(NewCmd("c").fields) = 0
    /\ Len(oldTree.commands[2].fields) = 0 /\ Len(newTree.commands[3].fields) = 1
    /\ ErrorCount("new_param_or_command_type_field_missing", "c") = 1
    /\ Len(errors) = 5

(***************************************************************************)
(* idl/generator.py as a program: generate_header_str, generate_source_str *)
(* and generate_code, called by a process on the IDLAST it holds.  A text  *)
(* is the list of the items written to the stream, in order.  Two          *)
(* processes run side by side so that their outputs can be compared.       *)
(***************************************************************************)
MaxCalls == 2

Runs == {"A", "B"}

GenField(cpp_name, type) == [cpp_name |-> cpp_name, type |-> type]
GenStruct(cpp_name, fields) == [cpp_name |-> cpp_name, fields |-> fields]
IDLAST(structs, commands) == [structs |-> structs, commands |-> commands]

\* the order of Python strings on the identifiers used
CppNameOrder == <<"a", "b", "c">>
CppNameRank(n) == CHOOSE i \in DOMAIN CppNameOrder : CppNameOrder[i] = n

InsertByCppName(sorted, field) ==
    LET k == Cardinality({i \in DOMAIN sorted :
                             CppNameRank(sorted[i].cpp_name) <= CppNameRank(field.cpp_name)})
    IN SubSeq(sorted, 1, k) \o << field >> \o SubSeq(sorted, k + 1, Len(sorted))

RECURSIVE SortByCppName(_, _, _)
SortByCppName(all_fields, i, sorted) ==
    IF i > Len(all_fields) THEN sorted
    ELSE SortByCppName(all_fields, i + 1, InsertByCppName(sorted, all_fields[i]))

\* sorted(all_fields, key=lambda f: f.cpp_name)
_get_all_fields(st) == SortByCppName(st.fields, 1, <<>>)

\* the "Source: <command line>" comment every generated file starts with
gen_file_header(command_line) == << <<"Source", command_line>> >>

\* the sorted block of string constants of a struct
gen_string_constants(st) ==
    [i \in DOMAIN _get_all_fields(st) |-> <<"constant", _get_all_fields(st)[i].cpp_name>>]

\* the class declaration of one struct: constants, then the members as declared
HeaderClass(st) ==
    << <<"class", st.cpp_name>> >> \o gen_string_constants(st)
    \o [i \in DOMAIN st.fields |-> <<"member", st.fields[i].cpp_name>>]

RECURSIVE HeaderClasses(_, _)
HeaderClasses(spec_and_structs, i) ==
    IF i > Len(spec_and_structs) THEN <<>>
    ELSE HeaderClass(spec_and_structs[i]) \o HeaderClasses(spec_and_structs, i + 1)

\* the definitions of one struct: constants, then one parse step per field as declared
SourceClass(st) ==
    gen_string_constants(st) \o << <<"constructor", st.cpp_name>> >>
    \o [i \in DOMAIN st.fields |-> <<"deserialize", st.fields[i].cpp_name>>]

RECURSIVE SourceClasses(_, _)
SourceClasses(structs, i) ==
    IF i > Len(structs) THEN <<>>
    ELSE SourceClass(structs[i]) \o SourceClasses(structs, i + 1)

\* a field whose type does not resolve stops either writer
UnresolvedIn(structs) ==
    \E i \in DOMAIN structs : \E j \in DOMAIN structs[i].fields :
        structs[i].fields[j].type = "unresolved"

\* _gen_field_deserializer_expression: no struct type, no bson cpp type, and
\* "assert field.bson_serialization_type == ['object']" fails
DeserializerAsserts(structs) ==
    \E i \in DOMAIN structs : \E j \in DOMAIN structs[i].fields :
        structs[i].fields[j].type = "unknown_bson"

\* _CppHeaderFileWriter.generate through generate_header_str: the tree it leaves,
\* whether it raised, and the text returned
generate_header_str(spec, command_line) ==
    LET spec_and_structs == spec.structs \o spec.commands
        raised == UnresolvedIn(spec_and_structs)
    IN [spec |-> [spec EXCEPT !.structs = spec_and_structs],
        raised |-> raised,
        text |-> IF raised THEN <<>>
                 ELSE gen_file_header(command_line) \o HeaderClasses(spec_and_structs, 1)]

\* _CppSourceFileWriter.generate through generate_source_str
generate_source_str(spec, command_line, header_file_name) ==
    LET raised == UnresolvedIn(spec.structs) \/ DeserializerAsserts(spec.structs)
    IN [spec |-> spec,
        raised |-> raised,
        text |-> IF raised THEN <<>>
                 ELSE gen_file_header(command_line) \o << <<"include", header_file_name>> >>
                      \o SourceClasses(spec.structs, 1)]

\* a path is the list of its components; the name the source file includes
include_h_file_name(output_base_dir, header_file_name) ==
    IF output_base_dir # <<>>
    THEN SubSeq(header_file_name, Len(output_base_dir) + 1, Len(header_file_name))
    ELSE <<"cwd">> \o header_file_name

Absent == <<"absent">>

\* generate_code: _generate_header, then _generate_source
generate_code(spec, command_line, output_base_dir, header_file_name, written) ==
    LET h == generate_header_str(spec, command_line)
        s == generate_source_str(h.spec, command_line,
                                 include_h_file_name(output_base_dir, header_file_name))
    IN IF h.raised
       THEN [spec |-> h.spec, raised |-> TRUE, files |-> written]
       ELSE IF s.raised
       THEN [spec |-> s.spec, raised |-> TRUE,
             files |-> [written EXCEPT !.header = h.text]]
       ELSE [spec |-> s.spec, raised |-> FALSE,
             files |-> [header |-> h.text, source |-> s.text]]

\* the trees and command lines the processes start with
GenStructLists == {<<>>, << GenStruct("S", << GenField("b", "int"), GenField("a", "int") >>) >>}
GenCommandLists ==
    {<<>>} \cup {<< GenStruct("K", << GenField("c", t) >>) >> :
                    t \in {"int", "unknown_bson", "unresolved"}}
CommandLines == {"idlc x.idl", "idlc --base_dir out x.idl"}
HeaderFileNames == {<<"out", "x_gen.h">>, <<"out", "y_gen.h">>}
OutputBaseDirs == {<<>>, <<"out">>}

NoCall == [fn |-> "none"]

GenerateInit ==
    /\ ast \in [Runs -> {IDLAST(st, co) : st \in GenStructLists, co \in GenCommandLists}]
    /\ sys_argv \in [Runs -> CommandLines]
    /\ files = [r \in Runs |-> [header |-> Absent, source |-> Absent]]
    /\ last = [r \in Runs |-> NoCall]
    /\ calls = 0
    /\ CompatIdle
    /\ CodecIdle
    /\ ExecIdle
    /\ LibIdle

GenerateHeaderStr(r) ==
    /\ calls < MaxCalls
    /\ LET res == generate_header_str(ast[r], sys_argv[r])
       IN /\ ast' = [ast EXCEPT ![r] = res.spec]
          /\ last' = [last EXCEPT ![r] = [fn |-> "generate_header_str", ast |-> ast[r],
                                          header_file_name |-> <<>>, files |-> files[r],
                                          raised |-> res.raised, text |-> res.text]]
    /\ calls' = calls + 1
    /\ UNCHANGED <<sys_argv, files>>
    /\ UNCHANGED compatVars
    /\ UNCHANGED codecVars
    /\ UNCHANGED execVars
    /\ UNCHANGED libVars

GenerateSourceStr(r) ==
    /\ calls < MaxCalls
    /\ \E header_file_name \in HeaderFileNames :
          LET res == generate_source_str(ast[r], sys_argv[r], header_file_name)
          IN /\ ast' = [ast EXCEPT ![r] = res.spec]
             /\ last' = [last EXCEPT ![r] = [fn |-> "generate_source_str", ast |-> ast[r],
                                             header_file_name |-> header_file_name,
                                             files |-> files[r],
                                             raised |-> res.raised, text |-> res.text]]
    /\ calls' = calls + 1
    /\ UNCHANGED <<sys_argv, files>>
    /\ UNCHANGED compatVars
    /\ UNCHANGED codecVars
    /\ UNCHANGED execVars
    /\ UNCHANGED libVars

GenerateCode(r) ==
    /\ calls < MaxCalls
    /\ \E header_file_name \in HeaderFileNames, output_base_dir \in OutputBaseDirs :
          LET res == generate_code(ast[r], sys_argv[r], output_base_dir, header_file_name,
                                   files[r])
          IN /\ ast' = [ast EXCEPT ![r] = res.spec]
             /\ files' = [files EXCEPT ![r] = res.files]
             /\ last' = [last EXCEPT ![r] = [fn |-> "generate_code", ast |-> ast[r],
                                             header_file_name |-> header_file_name,
                                             files |-> files[r],
                                             raised |-> res.raised, text |-> <<>>]]
    /\ calls' = calls + 1
    /\ UNCHANGED sys_argv
    /\ UNCHANGED compatVars
    /\ UNCHANGED codecVars
    /\ UNCHANGED execVars
    /\ UNCHANGED libVars

GenerateNext ==
    \E r \in Runs : GenerateHeaderStr(r) \/ GenerateSourceStr(r) \/ GenerateCode(r)

SpecGenerate == GenerateInit /\ [][GenerateNext]_vars

(***************************************************************************)
(* Properties of the generator as a program.                               *)
(***************************************************************************)
StrFunctions == {"generate_header_str", "generate_source_str"}

\* C22: after generate_header_str or generate_source_str, spec.structs and
\* spec.commands, and the structs and fields in them, are what they were before
\* the call.
C22_AstNotMutated ==
    \A r \in Runs : last[r].fn \in StrFunctions => ast[r] = last[r].ast

\* C23: the text generate_header_str or generate_source_str returns depends on the
\* AST handed in (and the header file name) alone: two calls of the same function
\* on equal trees return the same text.
C23_Deterministic ==
    \A r1, r2 \in Runs :
        (/\ last[r1].fn \in StrFunctions /\ last[r2].fn = last[r1].fn
         /\ last[r1].ast = last[r2].ast
         /\ last[r1].header_file_name = last[r2].header_file_name
         /\ ~last[r1].raised /\ ~last[r2].raised)
        => last[r1].text = last[r2].text

\* C24: when generate_code ends by an exception raised while the header text or
\* the source text is produced, the header file and the source file are what they
\* were before the call.
C24_NoPartialOutput ==
    \A r \in Runs :
        last[r].fn = "generate_code" /\ last[r].raised => files[r] = last[r].files

(***************************************************************************)
(* The two usage checkers compared.                                        *)
(***************************************************************************)
\* the parse method as generated around the given usage checker
DecodeWith(st, checker, bsonObject) ==
    LET looped == ElementLoop(st, checker, ParserStart(st), bsonObject, 1)
        chained == IF looped.err.code # "ok" THEN looped ELSE ChainedLoop(st, looped, 1)
        final == IF chained.err.code # "ok" THEN chained
                 ELSE IF checker = "fast" THEN FastFinalChecks(st, chained)
                 ELSE SlowFinalChecks(Dispatched(st), chained, 1)
    IN [err |-> final.err, object |-> final.object]

OnlyDeclaredNames(st, d) == \A i \in DOMAIN d : d[i].name \in FieldNamesOf(st)

\* C25: on a document that bears declared field names only, the decoder generated
\* with the set-based usage checker and the one generated with the bitset-based
\* usage checker end the same way (success, or the same error for the same field)
\* and leave the same members, elements whose type check answers false included.
C25_StrategyEquivalence ==
    (gpc = "parsed" /\ OnlyDeclaredNames(struct, doc))
    => LET slow == DecodeWith(struct, "slow", doc)
           fast == DecodeWith(struct, "fast", doc)
       IN /\ slow.err = fast.err
          /\ (slow.err.code = "ok" => slow.object.val = fast.object.val)

(***************************************************************************)
(* The has-flags of the required serializer fields.                        *)
(***************************************************************************)
RequiredSerializerFields(st) ==
    {f \in Range(st.fields) : _is_required_serializer_field(f)}

\* "invariant(_hasA && _hasB ...)" at the top of the generated serializer
SerializerInvariant(st, obj) ==
    \A f \in RequiredSerializerFields(st) : obj.has[f.name]

\* whether the element loop decodes an element of d into the member of f: the
\* element bears the name of f and passes the type check of f, if f has one
DecodedFor(st, d, f) ==
    \E i \in BodyIndices(st, d) :
        d[i].name = f.name /\ (_get_bson_type_check(f) /\ ~f.array => d[i].chk = "true")

\* C26: the flag _has<F> of a required serializer field F is true exactly when the
\* member of F was given a value since construction, here by decoding an element
\* for F, so that the serializer's invariant (all such flags true) holds after
\* every decode that returns successfully.
C26_HasFlags ==
    (gpc = "parsed" /\ parsed.err.code = "ok")
    => /\ \A f \in RequiredSerializerFields(struct) :
             parsed.object.has[f.name] <=> DecodedFor(struct, doc, f)
       /\ SerializerInvariant(struct, parsed.object)

(***************************************************************************)
(* operator!= against operator==.                                          *)
(***************************************************************************)
\* what operator== is to answer: every compared member equal, two optional
\* members being equal when both are empty or both hold equal contents
MembersEqual(st, l, r) ==
    \A f \in Range(sorted_fields(st)) :
        /\ l.val[f.name].set = r.val[f.name].set
        /\ l.val[f.name].set => l.val[f.name].items = r.val[f.name].items

\* C27: for two instances of a struct with generated comparison operators,
\* operator!= answers the negation of operator==, optional BSONObj fields
\* included, and operator== answers true exactly when every compared field is
\* empty on both sides or holds equal contents on both sides.
C27_NotEqualNegatesEqual ==
    (gpc = "compared" /\ ~cmp.IndexError)
    => /\ cmp.eq = MembersEqual(struct, object, other)
       /\ cmp.ne = ~cmp.eq

(***************************************************************************)
(* Variant reply fields.                                                   *)
(***************************************************************************)
\* the alternatives of the new type, the type itself when it is not a variant
NewAlternatives(nt) == IF IsVariant(nt) THEN nt.alts ELSE << nt >>

\* the new alternatives without a same-named alternative in the old variant
AddedAlternatives(ot, nt) ==
    {j \in DOMAIN NewAlternatives(nt) :
        \A i \in DOMAIN ot.alts : ot.alts[i].name # NewAlternatives(nt)[j].name}

\* the new alternatives whose same-named old alternative accepts less
WidenedAlternatives(ot, nt) ==
    {j \in DOMAIN NewAlternatives(nt) :
        \E i \in DOMAIN ot.alts :
            /\ ot.alts[i].name = NewAlternatives(nt)[j].name
            /\ ~(NewAlternatives(nt)[j].bson \subseteq ot.alts[i].bson)}

\* the variant rule for one reply field of command c
ReplyVariantRule(c, name, ot, nt) ==
    (IsVariant(ot) /\ IsType(nt) /\ ~HasAny(nt)) =>
        /\ ErrorCountNamed("new_reply_field_variant_type_not_subset", c, name)
              = Cardinality(AddedAlternatives(ot, nt))
                + (IF IsVariant(nt) /\ nt.vstruct # <<>> /\ ot.vstruct = <<>> THEN 1 ELSE 0)
        /\ ErrorCountNamed("reply_field_not_subset", c, name)
              = Cardinality(WidenedAlternatives(ot, nt))
        /\ \A k \in DOMAIN errors :
              (errors[k].cmd = c /\ errors[k].name = name)
              => errors[k].kind \in {"new_reply_field_variant_type_not_subset",
                                     "reply_field_not_subset"}
        /\ (IsVariant(nt) /\ nt.vstruct # <<>> /\ ot.vstruct # <<>>)
              => SubsetRule(c, ot.vstruct[1].fields, nt.vstruct[1].fields, TRUE)

\* C28 as stated: for every reply field whose old type is a variant there is one
\* not-subset error for every alternative of the new type (the new type itself
\* when it is not a variant) without a same-named old alternative, one for a new
\* struct alternative when the old variant has none, same-named alternatives are
\* checked by the subset rule, and a dropped old alternative records nothing.
C28_AsStated ==
    cpc = "done" =>
        \A c \in ComparedNames :
            \A pr \in SameNamed(ReplyFields(oldTree, OldCmd(c)),
                                ReplyFields(newTree, NewCmd(c))) :
                ReplyVariantRule(c, pr[1].name, TypeOf(oldTree, pr[1].type),
                                 TypeOf(newTree, pr[2].type))

\* C28 (amended): the rule holds for the reply fields the old version does not
\* mark unstable and whose new type is a type without the "any" wire type; a
\* reply field the old version marks unstable is not checked at all.
C28_VariantReplyFields ==
    cpc = "done" =>
        \A c \in ComparedNames :
            /\ \A pr \in StableReplyPairs(c) :
                  ReplyVariantRule(c, pr[1].name, TypeOf(oldTree, pr[1].type),
                                   TypeOf(newTree, pr[2].type))
            /\ \A pr \in SameNamed(ReplyFields(oldTree, OldCmd(c)),
                                   ReplyFields(newTree, NewCmd(c))) :
                  pr[1].unstable => ~FieldHasError(c, pr[1].name)

\* the old variant {string, int} against the new variant {string} with a struct:
\* the dropped int records nothing, the added struct alternative one error
C28_Witness ==
    /\ cpc = "done"
    /\ "c" \in ComparedNames
    /\ \E pr \in StableReplyPairs("c") :
          /\ pr[1].type = "varSI" /\ pr[2].type = "varSst"
          /\ ErrorCountNamed("new_reply_field_variant_type_not_subset", "c", pr[1].name) = 1
    /\ Len(errors) = 1

(***************************************************************************)
(* TestSuiteExecutor.run (resmokelib/testing/executor.py).  The jobs, their *)
(* fixtures and their reports are the environment of run: what a job does  *)
(* to the flags it is handed, what its report says and what its            *)
(* teardown_fixture returns are inputs.                                    *)
(***************************************************************************)
MaxRepeatSuites == 3
MaxJobs == 2

\* A flag local of run: None, or a threading.Event that is clear or set.
\* An Event object is truthy whether or not it is set.
Truthy(flag) == flag # "None"

is_set(flag) == flag = "set"

NoReturnCode == "None"

\* The executor after __init__, with the locals of run not yet assigned.
TestSuiteExecutor(num_repeat_suites, fail_fast, jobs) ==
    [pc |-> "run",
     options |-> [num_repeat_suites |-> num_repeat_suites, fail_fast |-> fail_fast],
     jobs |-> jobs,
     suite_return_code |-> NoReturnCode,
     return_code |-> 0, num_repeat_suites |-> 0,
     setup_flag |-> "None", teardown_flag |-> "None",
     report |-> [wasSuccessful |-> TRUE, short |-> FALSE], interrupted |-> FALSE,
     raised |-> "none",
     \* what the jobs did during the run
     setup_failed |-> FALSE, teardown_failed |-> FALSE, tests_failed |-> FALSE]

\* for job in self._jobs: if not job.teardown_fixture(): success = False
RECURSIVE TeardownFrom(_, _, _)
TeardownFrom(torn, j, success) ==
    IF j > Len(torn) THEN success
    ELSE TeardownFrom(torn, j + 1, IF ~torn[j] THEN FALSE ELSE success)

_teardown_fixtures(torn) == TeardownFrom(torn, 1, TRUE)

\* The finally block of run; torn[j] is what teardown_fixture of job j returns.
finally(e, torn) ==
    LET called == ~Truthy(e.teardown_flag)
        failed == called /\ ~_teardown_fixtures(torn)
        return_code == IF failed THEN 2 ELSE e.return_code
    IN [e EXCEPT !.pc = "done", !.return_code = return_code,
                 !.suite_return_code = return_code,
                 !.teardown_failed = @ \/ failed]

\* The head of the while loop: another repetition, or the end of the try block.
while(e, torn) ==
    IF e.num_repeat_suites > 0 THEN [e EXCEPT !.pc = "_run_tests"] ELSE finally(e, torn)

\* The loop body after _run_tests returned (lines 99-134), up to the next
\* evaluation of the loop condition.
after_run_tests(e, torn) ==
    IF Truthy(e.setup_flag) /\ is_set(e.setup_flag)
    THEN finally([e EXCEPT !.return_code = 2], torn)
    ELSE LET e1 == [e EXCEPT !.setup_flag = "None"]
         IN IF e1.interrupted
            THEN finally([e1 EXCEPT !.raised = "UserInterrupt"], torn)
            ELSE LET e2 == IF Truthy(e1.teardown_flag) /\ is_set(e1.teardown_flag)
                           THEN [e1 EXCEPT !.return_code = 2] ELSE e1
                     e3 == IF ~e2.report.wasSuccessful
                           THEN [e2 EXCEPT !.return_code = 1] ELSE e2
                 IN IF ~e3.report.wasSuccessful /\ e3.options.fail_fast
                    THEN finally(e3, torn)
                    ELSE IF e3.report.short
                    THEN finally([e3 EXCEPT !.raised = "ResmokeError"], torn)
                    ELSE while([e3 EXCEPT !.num_repeat_suites = @ - 1], torn)

ExecutorInit ==
    /\ executor \in {TestSuiteExecutor(n, ff, jobs) :
                        n \in 0..MaxRepeatSuites, ff \in BOOLEAN, jobs \in 1..MaxJobs}
    /\ CompatIdle
    /\ CodecIdle
    /\ GenIdle
    /\ LibIdle

\* run is called: lines 76-86, up to the first evaluation of the loop condition.
Run ==
    /\ executor.pc = "run"
    /\ \E torn \in [1..executor.jobs -> BOOLEAN] :
          executor' = while([executor EXCEPT
                                !.return_code = 0, !.setup_flag = "clear",
                                !.teardown_flag = "None",
                                !.num_repeat_suites = executor.options.num_repeat_suites],
                            torn)
    /\ UNCHANGED compatVars
    /\ UNCHANGED codecVars
    /\ UNCHANGED genVars
    /\ UNCHANGED libVars

\* Lines 87-97: the job threads run the queue.  A job can set a flag only when
\* it is handed one.
RunTests ==
    /\ executor.pc = "_run_tests"
    /\ LET teardown_flag == IF executor.num_repeat_suites = 1 THEN "clear" ELSE "None"
       IN \E setup_fails \in IF Truthy(executor.setup_flag) THEN BOOLEAN ELSE {FALSE},
             teardown_fails \in IF Truthy(teardown_flag) THEN BOOLEAN ELSE {FALSE},
             wasSuccessful \in BOOLEAN, short \in BOOLEAN, user_interrupted \in BOOLEAN :
             executor' = [executor EXCEPT
                             !.pc = "ran",
                             !.setup_flag = IF setup_fails THEN "set" ELSE @,
                             !.teardown_flag = IF teardown_fails THEN "set" ELSE teardown_flag,
                             !.report = [wasSuccessful |-> wasSuccessful, short |-> short],
                             !.interrupted = user_interrupted,
                             !.setup_failed = @ \/ setup_fails,
                             !.teardown_failed = @ \/ teardown_fails,
                             !.tests_failed = @ \/ ~wasSuccessful]
    /\ UNCHANGED compatVars
    /\ UNCHANGED codecVars
    /\ UNCHANGED genVars
    /\ UNCHANGED libVars

AfterRunTests ==
    /\ executor.pc = "ran"
    /\ \E torn \in [1..executor.jobs -> BOOLEAN] :
          executor' = after_run_tests(executor, torn)
    /\ UNCHANGED compatVars
    /\ UNCHANGED codecVars
    /\ UNCHANGED genVars
    /\ UNCHANGED libVars

ExecutorNext == Run \/ RunTests \/ AfterRunTests

SpecExecutor == ExecutorInit /\ [][ExecutorNext]_vars

FixtureFailed == executor.setup_failed \/ executor.teardown_failed

\* C29: when run has ended, suite.return_code holds a return code: 2 when the
\* setup or the teardown of a job fixture failed (the teardown by the job
\* threads or by _teardown_fixtures), whether or not tests failed; 1 when tests
\* failed and no fixture setup or teardown failed; 0 otherwise.
C29_ReturnCode ==
    (executor # <<>> /\ executor.pc = "done") =>
        /\ executor.suite_return_code \in {0, 1, 2}
        /\ (FixtureFailed => executor.suite_return_code = 2)
        /\ ((executor.tests_failed /\ ~FixtureFailed) => executor.suite_return_code = 1)
        /\ ((~executor.tests_failed /\ ~FixtureFailed) => executor.suite_return_code = 0)

(***************************************************************************)
(* __get_libdeps (site_scons/libdeps.py).  Nodes are numbered in the order *)
(* of their names, the order __get_sorted_direct_libdeps sorts by.  Node 0 *)
(* is the node asked for.  graph[a, b] is the type of the dependency of a  *)
(* on b in libdeps_direct of a, or NoDependency.                           *)
(***************************************************************************)
MaxLibs == 3

Nodes == 0..MaxLibs

Libs == 1..MaxLibs

NoDependency == "none"

DependencyTypes == {"Public", "Private", "Interface"}

\* LIBDEPS_cached of a node: None, or the list cached by an earlier call.
NotCached == [cached |-> FALSE, list |-> <<>>]

Cached(list) == [cached |-> TRUE, list |-> list]

\* sorted(direct, key=lambda t: str(t.target_node))
RECURSIVE SortedDirectFrom(_, _, _)
SortedDirectFrom(graph, n, t) ==
    IF t > MaxLibs THEN <<>>
    ELSE (IF graph[n, t] # NoDependency
          THEN <<[target_node |-> t, dependency_type |-> graph[n, t]]>>
          ELSE <<>>) \o SortedDirectFrom(graph, n, t + 1)

__get_sorted_direct_libdeps(graph, n) == SortedDirectFrom(graph, n, 0)

\* The state of one walk: marked, tsorted, walking, and the DependencyCycleError
\* in flight (cycle_nodes), if one was raised.
NewWalk == [marked |-> {}, tsorted |-> <<>>, walking |-> {}, raised |-> FALSE,
            cycle_nodes |-> <<>>]

RECURSIVE __libdeps_visit(_, _, _)
RECURSIVE VisitChildren(_, _, _, _)
\* for child in __get_sorted_direct_libdeps(n.target_node): ... (lines 538-540)
VisitChildren(graph, children, i, w) ==
    IF i > Len(children) \/ w.raised THEN w
    ELSE VisitChildren(graph, children, i + 1,
                       IF children[i].dependency_type # "Private"
                       THEN __libdeps_visit(graph, children[i].target_node, w)
                       ELSE w)

__libdeps_visit(graph, n, w) ==
    IF n \in w.marked THEN w
    ELSE IF n \in w.walking THEN [w EXCEPT !.raised = TRUE, !.cycle_nodes = <<n>>]
    ELSE LET w1 == VisitChildren(graph, __get_sorted_direct_libdeps(graph, n), 1,
                                 [w EXCEPT !.walking = @ \cup {n}])
         IN IF w1.raised
            THEN [w1 EXCEPT !.cycle_nodes =
                                IF Len(@) = 1 \/ @[1] # @[Len(@)] THEN <<n>> \o @ ELSE @]
            ELSE [w1 EXCEPT !.marked = @ \cup {n}, !.tsorted = Append(@, n)]

\* for child in __get_sorted_direct_libdeps(node): ... (lines 565-567)
RECURSIVE VisitDirect(_, _, _, _)
VisitDirect(graph, children, i, w) ==
    IF i > Len(children) \/ w.raised THEN w
    ELSE VisitDirect(graph, children, i + 1,
                     IF children[i].dependency_type # "Interface"
                     THEN __libdeps_visit(graph, children[i].target_node, w)
                     ELSE w)

reverse(s) == [i \in 1..Len(s) |-> s[Len(s) + 1 - i]]

\* What the call answers: the list returned (empty when the call raised),
\* whether DependencyCycleError was raised, and LIBDEPS_cached of the node after
\* the call.
GetLibdepsWithoutReverse(graph, node, cache) ==
    IF cache.cached
    THEN [returned |-> cache.list, raised |-> FALSE, cycle_nodes |-> <<>>, cache |-> cache]
    ELSE LET w == VisitDirect(graph, __get_sorted_direct_libdeps(graph, node), 1, NewWalk)
         IN IF w.raised
            THEN [returned |-> <<>>, raised |-> TRUE, cycle_nodes |-> w.cycle_nodes,
                  cache |-> cache]
            ELSE [returned |-> w.tsorted, raised |-> FALSE, cycle_nodes |-> <<>>,
                  cache |-> Cached(w.tsorted)]

__get_libdeps(graph, node, cache) ==
    IF cache.cached
    THEN [returned |-> cache.list, raised |-> FALSE, cycle_nodes |-> <<>>, cache |-> cache]
    ELSE LET w == VisitDirect(graph, __get_sorted_direct_libdeps(graph, node), 1, NewWalk)
         IN IF w.raised
            THEN [returned |-> <<>>, raised |-> TRUE, cycle_nodes |-> w.cycle_nodes,
                  cache |-> cache]
            ELSE [returned |-> reverse(w.tsorted), raised |-> FALSE, cycle_nodes |-> <<>>,
                  cache |-> Cached(reverse(w.tsorted))]

\* The graphs: a node that nothing depends on, over libraries that depend on
\* each other publicly or privately; the same over two libraries, with
\* Interface dependencies between them as well; and a node and one library
\* that depend on each other and on themselves in every way.
LibPairs == {p \in Libs \X Libs : p[1] # p[2]}

TwoLibs == {1, 2}

TwoLibPairs == {<<1, 2>>, <<2, 1>>}

SmallPairs == {0, 1} \X {0, 1}

ProgramGraph(direct, among) ==
    [p \in Nodes \X Nodes |->
        IF p[1] = 0 /\ p[2] \in DOMAIN direct THEN direct[p[2]]
        ELSE IF p \in DOMAIN among THEN among[p]
        ELSE NoDependency]

SmallGraph(edges) ==
    [p \in Nodes \X Nodes |-> IF p \in SmallPairs THEN edges[p] ELSE NoDependency]

NotCalled == [node |-> 0, returned |-> <<>>, raised |-> FALSE, cycle_nodes |-> <<>>]

LibdepsInit ==
    /\ \E graph \in {ProgramGraph(direct, among) :
                        direct \in [Libs -> DependencyTypes \cup {NoDependency}],
                        among \in [LibPairs -> {"Public", "Private", NoDependency}]}
                    \cup {ProgramGraph(direct, among) :
                            direct \in [TwoLibs -> DependencyTypes \cup {NoDependency}],
                            among \in [TwoLibPairs -> DependencyTypes \cup {NoDependency}]}
                    \cup {SmallGraph(edges) :
                            edges \in [SmallPairs -> DependencyTypes \cup {NoDependency}]} :
          libdeps = [graph |-> graph, LIBDEPS_cached |-> NotCached, calls |-> 0,
                     last |-> NotCalled]
    /\ CompatIdle
    /\ CodecIdle
    /\ GenIdle
    /\ ExecIdle

MaxLibdepsCalls == 2

\* __get_libdeps(node) is called for the node asked for.
GetLibdeps ==
    /\ libdeps.calls < MaxLibdepsCalls
    /\ LET res == __get_libdeps(libdeps.graph, 0, libdeps.LIBDEPS_cached)
       IN libdeps' = [libdeps EXCEPT
                         !.LIBDEPS_cached = res.cache,
                         !.calls = @ + 1,
                         !.last = [node |-> 0, returned |-> res.returned,
                                   raised |-> res.raised, cycle_nodes |-> res.cycle_nodes]]
    /\ UNCHANGED compatVars
    /\ UNCHANGED codecVars
    /\ UNCHANGED genVars
    /\ UNCHANGED execVars

SpecLibdeps == LibdepsInit /\ [][GetLibdeps]_vars

\* The libraries reachable from the set S through the edges whose type is not
\* in the set skipped.
RECURSIVE ReachableFrom(_, _, _)
ReachableFrom(graph, S, skipped) ==
    LET next == S \cup {b \in Nodes : \E a \in S :
                            graph[a, b] \notin skipped \cup {NoDependency}}
    IN IF next = S THEN S ELSE ReachableFrom(graph, next, skipped)

DependsOn(graph, a, skipped) ==
    ReachableFrom(graph, {b \in Nodes : graph[a, b] \notin skipped \cup {NoDependency}},
                  skipped)

\* The libraries the claim speaks of: reachable from the non-Interface direct
\* dependencies of the node through non-Private edges.
ReachableLibs(graph, node) ==
    ReachableFrom(graph, {b \in Nodes : graph[node, b] \notin {"Interface", NoDependency}},
                  {"Private"})

ReachableCycle(graph, node) ==
    \E a \in ReachableLibs(graph, node) : a \in DependsOn(graph, a, {"Private"})

\* The whole dependency graph of the node, edges of every type.
WholeGraphCycle(graph, node) ==
    \E a \in ReachableFrom(graph, {node}, {}) : a \in DependsOn(graph, a, {})

Position(list, a) == CHOOSE i \in DOMAIN list : list[i] = a

ExactlyOnce(list, S) ==
    /\ {list[i] : i \in DOMAIN list} = S
    /\ Len(list) = Cardinality(S)

\* Every library of the list stands before the libraries of the list it
\* depends on directly, the edges of the skipped types apart.
DependentsFirst(graph, list, skipped) ==
    \A i, j \in DOMAIN list :
        (graph[list[i], list[j]] \notin skipped \cup {NoDependency}) => i < j

LibdepsCalled == libdeps # <<>> /\ libdeps.calls > 0

====
